---- MODULE Spec2Model ----
(***************************************************************************)
(* A model of fine-auth: the crypto helpers of src/src/crypto.ts, the      *)
(* in-memory storage adapter and the FineAuth class of src/src/auth.ts.    *)
(*                                                                         *)
(* Strings are sequences of one-character strings, buffers are sequences   *)
(* of small naturals.  Every operation of FineAuth is a sequence of steps, *)
(* one per storage call (one per await), so that the storage calls of an   *)
(* operation are visible and can be counted.                               *)
(***************************************************************************)
EXTENDS Integers, Sequences, FiniteSets, TLC

(***************************************************************************)
(* Bounds of the model.                                                    *)
(***************************************************************************)
\* how many distinct values randomBytes can return for a session id
NumSessionIds == 3
\* how many distinct values randomBytes can return for a user id
NumUserIds == 2
\* how many distinct salts randomBytes can return
NumSalts == 1
\* the clock runs from 0 to MaxTime
MaxTime == 2
\* submitted emails have at most this many characters
MaxEmailLen == 2
\* number of callers
NumProcs == 1
\* session ids given to the token codec have at most this many characters
MaxCodecIdLen == 2
\* strings made up and presented as tokens have at most this many characters
MaxForgedLen == 4
\* passwords given to the hasher on its own have at most this many characters
MaxPasswordLen == 2
\* number of callers that call at the same time
NumCallers == 2

(***************************************************************************)
(* JavaScript values.                                                      *)
(***************************************************************************)
\* null, as returned by the adapter's getters and by validateSession
Null == [null |-> TRUE]
\* null where a string is expected (verifySessionId); no string equals it
NullString == <<"null">>
\* undefined where a string is expected: the value of a property an object
\* does not have; no string equals it
Undefined == <<"undefined">>
\* the value of a call that returns nothing
Void == [void |-> TRUE]

\* s.substring(i) for a 1-based i
Drop(s, i) == SubSeq(s, i, Len(s))

\* String.prototype.toLowerCase, on the letters the model uses
LowerChar(c) ==
  CASE c = "A" -> "a"
    [] c = "B" -> "b"
    [] c = "C" -> "c"
    [] c = "D" -> "d"
    [] c = "E" -> "e"
    [] c = "F" -> "f"
    [] OTHER -> c

toLowerCase(s) == [i \in 1..Len(s) |-> LowerChar(s[i])]

RECURSIVE trimStart(_)
trimStart(s) ==
  IF s = <<>> THEN s
  ELSE IF Head(s) = " " THEN trimStart(Tail(s)) ELSE s

RECURSIVE trimEnd(_)
trimEnd(s) ==
  IF s = <<>> THEN s
  ELSE IF s[Len(s)] = " " THEN trimEnd(SubSeq(s, 1, Len(s) - 1)) ELSE s

\* String.prototype.trim
trim(s) == trimEnd(trimStart(s))

\* String.prototype.split(d) for a one-character delimiter d: the pieces
\* between the occurrences of d; a string without d is one piece
RECURSIVE split(_, _)
split(s, d) ==
  IF \E i \in 1..Len(s) : s[i] = d
  THEN LET i == CHOOSE i \in 1..Len(s) :
                  s[i] = d /\ \A j \in 1..(i - 1) : s[j] # d
       IN  <<SubSeq(s, 1, i - 1)>> \o split(Drop(s, i + 1), d)
  ELSE <<s>>

\* all strings over the characters cs of length lo..hi
StringsOver(cs, lo, hi) == UNION {[1..n -> cs] : n \in lo..hi}

(***************************************************************************)
(* State.                                                                  *)
(***************************************************************************)
VARIABLES
  users,          \* memory adapter: Map user id -> User
  emailIndex,     \* memory adapter: Map email -> user id
  sessions,       \* memory adapter: Map session id -> Session
  now,            \* the clock read by Date.now() and new Date()
  usedSessionIds, \* the session ids generateSessionId() has returned
  proc,           \* per caller: the operation it runs and where it stands
  minted,         \* what successful signUp / signIn calls have returned
  codec           \* a run of the token codec or of the hasher on its own

vars ==
  <<users, emailIndex, sessions, now, usedSessionIds, proc, minted, codec>>

\* the state of FineAuth and its storage
authVars == <<users, emailIndex, sessions, now, usedSessionIds, proc, minted>>

(***************************************************************************)
(* src/src/crypto.ts.  Buffers are sequences of bytes 0..255; scrypt and   *)
(* HMAC-SHA256 are modelled as fixed-width injective functions of their    *)
(* inputs (no collisions within the bounds).                               *)
(***************************************************************************)
HexDigits == <<"0", "1", "2", "3", "4", "5", "6", "7",
               "8", "9", "a", "b", "c", "d", "e", "f">>

\* hex digits are accepted in either case
IsHexDigit(c) == \E i \in 1..16 : HexDigits[i] = LowerChar(c)

HexValue(c) == (CHOOSE i \in 1..16 : HexDigits[i] = LowerChar(c)) - 1

\* the two hex digits of one byte
HexOfByte(b) == <<HexDigits[(b \div 16) + 1], HexDigits[(b % 16) + 1]>>

\* Buffer.prototype.toString("hex")
RECURSIVE toHex(_)
toHex(buf) ==
  IF buf = <<>> THEN <<>> ELSE HexOfByte(Head(buf)) \o toHex(Tail(buf))

\* Buffer.from(str, "hex"): decodes pairs of hex digits up to the first pair
\* that is none; a trailing single digit is dropped
RECURSIVE fromHex(_)
fromHex(str) ==
  IF Len(str) < 2 \/ ~IsHexDigit(str[1]) \/ ~IsHexDigit(str[2]) THEN <<>>
  ELSE <<16 * HexValue(str[1]) + HexValue(str[2])>> \o fromHex(Drop(str, 3))

\* the characters of the model; the code of a character is its place here
Charset == <<"0", "1", "2", "3", "4", "5", "6", "7", "8", "9",
             "a", "b", "c", "d", "e", "f",
             "A", "B", "C", "D", "E", "F", "G", "H",
             " ", ".", ":", "p", "q", "k", "j", "-", "_">>

\* the character U+0000, whose byte is 0
Nul == "NUL"

CharCode(c) ==
  IF c = Nul THEN 0 ELSE CHOOSE i \in 1..Len(Charset) : Charset[i] = c

\* Buffer.from(str): the bytes of a string
toBytes(s) == [i \in 1..Len(s) |-> CharCode(s[i])]

\* buf cut or zero-padded to n bytes
FixedWidth(buf, n) == [i \in 1..n |-> IF i <= Len(buf) THEN buf[i] ELSE 0]


\* the block size of SHA-256 (64 bytes in node:crypto), scaled down to the
\* longest key of the model
HmacBlockLen == MaxPasswordLen

\* the key HMAC works with: a key shorter than the block is padded with zero
\* bytes to the block size (RFC 2104); the keys of the model fit the block
hmacKey(key) == FixedWidth(toBytes(key), HmacBlockLen)

\* the key derivation faults (the callback of scrypt gets an error); only a
\* run of the hasher on its own draws a fault
scryptFaults == "fault" \in DOMAIN codec /\ codec.fault

\* the scrypt key length (64 bytes in the source), scaled down: wide enough
\* for no two inputs of the model to collide
ScryptKeyLen == HmacBlockLen + 1

\* scrypt(password, salt, keylen): the password is the HMAC key of its
\* PBKDF2 rounds; a fixed-width function of that key and the salt, injective
\* while both fit the width
scrypt(password, salt, keylen) ==
  FixedWidth(hmacKey(password) \o salt, keylen)

\* the width of an HMAC-SHA256 digest (32 bytes in the source): wide enough
\* for no two inputs of the model to collide
MacLen == HmacBlockLen + 1 + MaxCodecIdLen

\* a digest that does not use the key
hmacDigestUnkeyed(secret, msg) ==
  FixedWidth(<<Len(msg)>> \o toBytes(msg), MacLen)

\* createHmac("sha256", secret).update(msg).digest(): a fixed-width
\* function of secret and message, injective while both fit the width
hmacDigest(secret, msg) ==
  FixedWidth(hmacKey(secret) \o <<Len(msg)>> \o toBytes(msg), MacLen)

\* the URL-safe alphabet, cut to eight characters
Base64UrlChars == <<"A", "B", "C", "D", "E", "F", "G", "H">>

\* digest("base64url"): two characters of the alphabet per byte (bytes of
\* a digest are below 64)
RECURSIVE base64url(_)
base64url(buf) ==
  IF buf = <<>> THEN <<>>
  ELSE <<Base64UrlChars[(Head(buf) \div 8) + 1],
         Base64UrlChars[(Head(buf) % 8) + 1]>> \o base64url(Tail(buf))

\* crypto.timingSafeEqual: throws on buffers of different length
timingSafeEqualThrows(a, b) == Len(a) # Len(b)

timingSafeEqual(a, b) == a = b

\* the salts randomBytes(16) can return
Salts == {<<b>> : b \in 0..(NumSalts - 1)}

hashPassword(password, salt) ==
  toHex(salt) \o <<":">> \o toHex(scrypt(password, salt, ScryptKeyLen))

\* a verifyPassword that derives a key one byte shorter than hashPassword
verifyPasswordShortKey(password, storedHash) ==
  LET parts == split(storedHash, ":") IN
  IF Len(parts) # 2 \/ parts[1] = <<>> \/ parts[2] = <<>> THEN FALSE
  ELSE LET salt       == fromHex(parts[1])
           storedKey  == fromHex(parts[2])
           derivedKey == scrypt(password, salt, ScryptKeyLen - 1)
       IN  IF timingSafeEqualThrows(storedKey, derivedKey) THEN FALSE
           ELSE timingSafeEqual(storedKey, derivedKey)

\* a verifyPassword that compares as many bytes as the stored key has
verifyPasswordPrefix(password, storedHash) ==
  LET parts == split(storedHash, ":") IN
  IF Len(parts) # 2 \/ parts[1] = <<>> \/ parts[2] = <<>> THEN FALSE
  ELSE LET salt       == fromHex(parts[1])
           storedKey  == fromHex(parts[2])
           derivedKey == scrypt(password, salt, ScryptKeyLen)
       IN  IF scryptFaults THEN FALSE
           ELSE timingSafeEqual(storedKey,
                                FixedWidth(derivedKey, Len(storedKey)))

\* a verifyPassword that checks the length of the stored key only
verifyPasswordLengthOnly(password, storedHash) ==
  LET parts == split(storedHash, ":") IN
  IF Len(parts) # 2 \/ parts[1] = <<>> \/ parts[2] = <<>> THEN FALSE
  ELSE LET storedKey  == fromHex(parts[2])
       IN  IF scryptFaults THEN FALSE
           ELSE Len(storedKey) = ScryptKeyLen

\* the try block returns false or the comparison; an error thrown in it (a
\* faulting key derivation, a timingSafeEqual of different lengths) is caught
\* and makes the result false
verifyPassword(password, storedHash) ==
  LET parts == split(storedHash, ":") IN
  IF Len(parts) # 2 \/ parts[1] = <<>> \/ parts[2] = <<>> THEN FALSE
  ELSE LET salt       == fromHex(parts[1])
           storedKey  == fromHex(parts[2])
           derivedKey == scrypt(password, salt, ScryptKeyLen)
       IN  IF scryptFaults THEN FALSE
           ELSE IF timingSafeEqualThrows(storedKey, derivedKey) THEN FALSE
           ELSE timingSafeEqual(storedKey, derivedKey)

\* randomBytes(n) for ids: ids are opaque and never compared but for
\* equality, so the model fixes the values randomBytes returns to 0, 1, 2,
\* ... in this order; it never returns a value twice
randomBytes(used) == <<used>>

\* generateSessionId(), when it has returned used ids before
generateSessionId(used) == toHex(randomBytes(used))

\* generateUserId(), when it has returned used ids before
generateUserId(used) == toHex(randomBytes(used))

\* the values generateSessionId() can return
SessionIds == {generateSessionId(n) : n \in 0..(NumSessionIds - 1)}

\* the values generateUserId() can return
UserIds == {generateUserId(n) : n \in 0..(NumUserIds - 1)}

\* a signSessionId that encodes the signature in hex
signSessionIdHex(sessionId, secret) ==
  LET signature == toHex(hmacDigest(secret, sessionId))
  IN  sessionId \o <<".">> \o signature

signSessionId(sessionId, secret) ==
  LET signature == base64url(hmacDigest(secret, sessionId))
  IN  sessionId \o <<".">> \o signature

\* what a caller of verifySessionId gets when an error escapes it; no string
\* equals it
RangeError == <<"RangeError">>

\* a verifySessionId without the length check before timingSafeEqual
verifySessionIdNoLengthCheck(token, secret) ==
  LET parts == split(token, ".") IN
  IF Len(parts) # 2 THEN NullString
  ELSE LET sessionId == parts[1]
           signature == parts[2]
       IN  IF sessionId = <<>> \/ signature = <<>> THEN NullString
           ELSE LET expectedSignature ==
                      base64url(hmacDigest(secret, sessionId))
                    signatureBuf == toBytes(signature)
                    expectedBuf  == toBytes(expectedSignature)
                IN  IF timingSafeEqualThrows(signatureBuf, expectedBuf)
                    THEN RangeError
                    ELSE IF timingSafeEqual(signatureBuf, expectedBuf)
                         THEN sessionId
                         ELSE NullString

\* a verifySessionId that compares the lengths of the signatures only
verifySessionIdLengthOnly(token, secret) ==
  LET parts == split(token, ".") IN
  IF Len(parts) # 2 THEN NullString
  ELSE LET sessionId == parts[1]
           signature == parts[2]
       IN  IF sessionId = <<>> \/ signature = <<>> THEN NullString
           ELSE LET expectedSignature ==
                      base64url(hmacDigest(secret, sessionId))
                IN  IF Len(signature) # Len(expectedSignature) THEN NullString
                    ELSE sessionId

\* the session id of a token whose signature is the expected one, null for
\* any other token; timingSafeEqual throws on buffers of different lengths
verifySessionId(token, secret) ==
  LET parts == split(token, ".") IN
  IF Len(parts) # 2 THEN NullString
  ELSE LET sessionId == parts[1]
           signature == parts[2]
       IN  IF sessionId = <<>> \/ signature = <<>> THEN NullString
           ELSE LET expectedSignature ==
                      base64url(hmacDigest(secret, sessionId))
                    signatureBuf == toBytes(signature)
                    expectedBuf  == toBytes(expectedSignature)
                IN  IF Len(signatureBuf) # Len(expectedBuf) THEN NullString
                    ELSE IF timingSafeEqualThrows(signatureBuf, expectedBuf)
                         THEN RangeError
                         ELSE IF timingSafeEqual(signatureBuf, expectedBuf)
                              THEN sessionId
                              ELSE NullString

(***************************************************************************)
(* src/src/errors.ts                                                       *)
(***************************************************************************)
InvalidCredentialsError ==
  [name    |-> "InvalidCredentialsError",
   code    |-> "INVALID_CREDENTIALS",
   message |-> "Invalid email or password"]

UserAlreadyExistsError ==
  [name    |-> "UserAlreadyExistsError",
   code    |-> "USER_ALREADY_EXISTS",
   message |-> "A user with this email already exists"]

NoError == [name |-> "", code |-> "", message |-> ""]

(***************************************************************************)
(* The configuration the manager is constructed with.                      *)
(***************************************************************************)
\* the length from which a secret counts as long enough
MinSecretLength == 32

\* config.secret
Secret == <<"k">>
\* a secret the manager was not constructed with
OtherSecret == <<"j">>
\* this.sessionExpiresIn, in clock ticks
sessionExpiresIn == 1

Procs == 1..NumProcs

EmailChars == {"a", "A", "b", " "}

\* the emails a caller submits: one letter, in either case, with or without
\* a space before or after it
Emails ==
  {e \in StringsOver(EmailChars, 1, MaxEmailLen) : Len(trim(e)) = 1}

\* the passwords a caller submits
Passwords == {<<"p">>, <<"q">>}

\* what a caller presents as a session token: what signUp / signIn returned
\* as the token, a raw session id, a token signed with the manager's secret,
\* one signed with another secret, and a signed token with a character added
Presented ==
  {Undefined} \cup SessionIds
    \cup {signSessionId(s, Secret) : s \in SessionIds}
    \cup {signSessionId(s, OtherSecret) : s \in SessionIds}
    \cup {signSessionId(s, Secret) \o <<"a">> : s \in SessionIds}

NoResult == [kind |-> "none", error |-> NoError, value |-> Void]

Returned(v) == [kind |-> "return", error |-> NoError, value |-> v]

Thrown(e) == [kind |-> "throw", error |-> e, value |-> Void]

\* a caller: where its call stands, what it submitted (email, password,
\* id), what the call holds (user, session), the storage calls it made, the
\* email it passed to getUserByEmail (lookup), the sessions of its user that
\* were stored when signIn looked the user up (seen), what a storage call
\* of the call raised (fault), and the result
IdleProc ==
  [pc |-> "idle", op |-> "none", email |-> <<>>, password |-> <<>>,
   id |-> <<>>, user |-> Null, session |-> Null, calls |-> <<>>,
   lookup |-> <<>>, seen |-> {}, fault |-> NoError, result |-> NoResult]

(***************************************************************************)
(* The in-memory adapter (src/unnamed/part_008).  Each operator is one     *)
(* storage call: a getter returns what it reads, a writer the new map.     *)
(***************************************************************************)
getUserByEmail(email) ==
  LET key == toLowerCase(email) IN
  IF key \notin DOMAIN emailIndex THEN Null
  ELSE IF emailIndex[key] \in DOMAIN users THEN users[emailIndex[key]]
       ELSE Null

getUserById(id) == IF id \in DOMAIN users THEN users[id] ELSE Null

getSession(id) == IF id \in DOMAIN sessions THEN sessions[id] ELSE Null

\* the User createUser stores and returns
newUser(id, data) ==
  [id |-> id, email |-> data.email, hashedPassword |-> data.hashedPassword,
   createdAt |-> now]

\* the Session createSession stores and returns
newSession(data) ==
  [id |-> data.id, userId |-> data.userId, expiresAt |-> data.expiresAt,
   createdAt |-> now]

\* Map.prototype.set
MapSet(m, k, v) == (k :> v) @@ m

\* Map.prototype.delete
MapDelete(m, k) == [x \in DOMAIN m \ {k} |-> m[x]]

\* sessions after deleteSession(id)
deleteSession(id) == MapDelete(sessions, id)

\* a deleteUserSessions that clears the map
deleteUserSessionsAll(userId) ==
  [x \in {y \in DOMAIN sessions : FALSE} |-> sessions[x]]

\* sessions after deleteUserSessions(userId)
deleteUserSessions(userId) ==
  [x \in {y \in DOMAIN sessions : sessions[y].userId # userId} |-> sessions[x]]

(***************************************************************************)
(* src/src/auth.ts                                                         *)
(***************************************************************************)
\* a toSafeUser that hands the stored user on as it is
toSafeUserWhole(user) == user

toSafeUser(user) ==
  [id |-> user.id, email |-> user.email, createdAt |-> user.createdAt]

\* a normalisation that trims and keeps the case
normalizeEmailNoLower(email) == trim(email)

\* a normalisation that does not trim
normalizeEmailNoTrim(email) == toLowerCase(email)

\* email.trim().toLowerCase()
normalizeEmail(email) == toLowerCase(trim(email))

\* what validateSession(sessionId) returns when it runs now, from its call
\* to its return, with no other operation in between
validateSession(sessionId) ==
  LET session == getSession(sessionId) IN
  IF session = Null THEN Null
  ELSE IF now > session.expiresAt THEN Null
  ELSE LET user == getUserById(session.userId) IN
       IF user = Null THEN Null
       ELSE [user |-> toSafeUser(user), session |-> session]

\* result.token as a caller reads it from what signUp / signIn returned
TokenOf(value) ==
  IF "token" \in DOMAIN value THEN value.token ELSE Undefined

\* what createUser does: the maps after it and the User it returns
createUser(id, data) ==
  [users      |-> MapSet(users, id, newUser(id, data)),
   emailIndex |-> MapSet(emailIndex, toLowerCase(data.email), id),
   user       |-> newUser(id, data)]

\* what createSession does: the map after it and the Session it returns
createSession(data) ==
  [sessions |-> MapSet(sessions, data.id, newSession(data)),
   session  |-> newSession(data)]

\* the callers that still have a createSession / createUser call to make
AwaitingSessionId == {q \in DOMAIN proc : proc[q].pc \in {"createUser", "createSession"}}

AwaitingUserId == {q \in DOMAIN proc : proc[q].pc = "createUser"}

\* randomBytes has a session id / user id left that it has not yet returned
SessionIdLeft ==
  Cardinality(SessionIds \ usedSessionIds) > Cardinality(AwaitingSessionId)

\* the user ids generateUserId() has returned: those of the stored users
\* and those that calls, finished or in flight, hold
UsedUserIds ==
  DOMAIN users
    \cup {m.userId : m \in minted}
    \cup {proc[q].user.id : q \in {r \in DOMAIN proc : proc[r].user # Null}}

UserIdLeft ==
  Cardinality(UserIds \ UsedUserIds) > Cardinality(AwaitingUserId)

\* no operation is in flight
AllIdle == \A q \in DOMAIN proc : proc[q].pc = "idle"

\* the object signUp and signIn return
AuthResult(user, session) == [user |-> toSafeUser(user), session |-> session]

\* what a successful signUp / signIn handed to its caller, and what the
\* caller had submitted: the email trimmed and lower-cased, and the password
Mint(operation, value, email, password) ==
  [op |-> operation, sessionId |-> value.session.id,
   userId |-> value.user.id, token |-> TokenOf(value),
   email |-> toLowerCase(trim(email)), password |-> password]

\* a signUp that does not look the email up before it creates the user
SignUpOfUnchecked(p, emails, passwords) ==
  \E email \in emails, password \in passwords :
    LET normalizedEmail == normalizeEmail(email)
        started == [proc[p] EXCEPT !.op = "signUp", !.email = email,
                                   !.password = password,
                                   !.lookup = normalizedEmail,
                                   !.calls = <<"getUserByEmail">>]
    IN  /\ proc[p].pc = "idle"
        /\ SessionIdLeft /\ UserIdLeft
        /\ proc' = [proc EXCEPT ![p] = [started EXCEPT !.pc = "createUser"]]
        /\ UNCHANGED <<users, emailIndex, sessions, now, usedSessionIds, minted, codec>>

\* signUp up to its first await: normalise, look the email up, throw if taken
SignUpOf(p, emails, passwords) ==
  \E email \in emails, password \in passwords :
    LET normalizedEmail == normalizeEmail(email)
        existingUser    == getUserByEmail(normalizedEmail)
        started == [proc[p] EXCEPT !.op = "signUp", !.email = email,
                                   !.password = password,
                                   !.lookup = normalizedEmail,
                                   !.calls = <<"getUserByEmail">>]
    IN  /\ proc[p].pc = "idle"
        /\ existingUser = Null => (SessionIdLeft /\ UserIdLeft)
        /\ proc' = [proc EXCEPT ![p] =
             IF existingUser # Null
             THEN [started EXCEPT !.pc = "done",
                                  !.result = Thrown(UserAlreadyExistsError)]
             ELSE [started EXCEPT !.pc = "createUser"]]
        /\ UNCHANGED <<users, emailIndex, sessions, now, usedSessionIds, minted, codec>>

\* signUp called with one of the emails and passwords callers submit
SignUp(p) == SignUpOf(p, Emails, Passwords)

\* a signUp that looks the email up again in the step that creates the user
SignUpCreateUserRechecks(p) ==
  \E salt \in Salts :
    LET id == generateUserId(Cardinality(UsedUserIds))
        hashedPassword == hashPassword(proc[p].password, salt)
        existingUser == getUserByEmail(normalizeEmail(proc[p].email))
        created == createUser(id, [email |-> normalizeEmail(proc[p].email),
                                   hashedPassword |-> hashedPassword])
    IN  /\ proc[p].pc = "createUser"
        /\ users' = IF existingUser # Null THEN users ELSE created.users
        /\ emailIndex' = IF existingUser # Null THEN emailIndex
                         ELSE created.emailIndex
        /\ proc' = [proc EXCEPT ![p] =
             IF existingUser # Null
             THEN [@ EXCEPT !.pc = "done",
                            !.result = Thrown(UserAlreadyExistsError)]
             ELSE [@ EXCEPT !.pc = "createSession",
                            !.user = created.user,
                            !.calls = Append(@, "createUser")]]
        /\ UNCHANGED <<sessions, now, usedSessionIds, minted, codec>>

\* a signUp whose createUser returns the user and does not store it
SignUpCreateUserUnstored(p) ==
  \E salt \in Salts :
    LET id == generateUserId(Cardinality(UsedUserIds))
        hashedPassword == hashPassword(proc[p].password, salt)
        created == createUser(id, [email |-> normalizeEmail(proc[p].email),
                                   hashedPassword |-> hashedPassword])
    IN  /\ proc[p].pc = "createUser"
        /\ proc' = [proc EXCEPT ![p].pc = "createSession",
                                ![p].user = created.user,
                                ![p].calls = Append(@, "createUser")]
        /\ UNCHANGED <<users, emailIndex, sessions, now, usedSessionIds, minted, codec>>

\* signUp: hash the password and create the user
SignUpCreateUser(p) ==
  \E salt \in Salts :
    LET id == generateUserId(Cardinality(UsedUserIds))
        hashedPassword == hashPassword(proc[p].password, salt)
        created == createUser(id, [email |-> normalizeEmail(proc[p].email),
                                   hashedPassword |-> hashedPassword])
    IN  /\ proc[p].pc = "createUser"
        /\ users' = created.users
        /\ emailIndex' = created.emailIndex
        /\ proc' = [proc EXCEPT ![p].pc = "createSession",
                                ![p].user = created.user,
                                ![p].calls = Append(@, "createUser")]
        /\ UNCHANGED <<sessions, now, usedSessionIds, minted, codec>>

\* a createSession step that keeps one session per user: it drops the
\* sessions the user had
MintSessionSingle(p, operation) ==
  \E id \in {generateSessionId(Cardinality(usedSessionIds))} :
    LET created == createSession([id |-> id, userId |-> proc[p].user.id,
                                  expiresAt |-> now + sessionExpiresIn])
        value   == AuthResult(proc[p].user, created.session)
    IN  /\ proc[p].pc = "createSession"
        /\ proc[p].op = operation
        /\ sessions' = MapSet(deleteUserSessions(proc[p].user.id), id,
                              created.session)
        /\ usedSessionIds' = usedSessionIds \cup {id}
        /\ minted' = minted \cup {Mint(operation, value, proc[p].email,
                                       proc[p].password)}
        /\ proc' = [proc EXCEPT ![p].pc = "done",
                                ![p].session = created.session,
                                ![p].calls = Append(@, "createSession"),
                                ![p].result = Returned(value)]
        /\ UNCHANGED <<users, emailIndex, now, codec>>

\* a createSession step that also sweeps: it drops the stored sessions that
\* have expired
MintSessionSweeps(p, operation) ==
  \E id \in {generateSessionId(Cardinality(usedSessionIds))} :
    LET created == createSession([id |-> id, userId |-> proc[p].user.id,
                                  expiresAt |-> now + sessionExpiresIn])
        value   == AuthResult(proc[p].user, created.session)
    IN  /\ proc[p].pc = "createSession"
        /\ proc[p].op = operation
        /\ sessions' =
             [x \in {y \in DOMAIN created.sessions :
                       now <= created.sessions[y].expiresAt}
                |-> created.sessions[x]]
        /\ usedSessionIds' = usedSessionIds \cup {id}
        /\ minted' = minted \cup {Mint(operation, value, proc[p].email,
                                       proc[p].password)}
        /\ proc' = [proc EXCEPT ![p].pc = "done",
                                ![p].session = created.session,
                                ![p].calls = Append(@, "createSession"),
                                ![p].result = Returned(value)]
        /\ UNCHANGED <<users, emailIndex, now, codec>>

\* a createSession step that fails and is tried again
MintSessionRetries(p, operation) ==
  /\ proc[p].pc = "createSession"
  /\ proc[p].op = operation
  /\ Len(proc[p].calls) < NumSessionIds + NumUserIds
  /\ proc' = [proc EXCEPT ![p].calls = Append(@, "createSession")]
  /\ UNCHANGED <<users, emailIndex, sessions, now, usedSessionIds, minted, codec>>

\* the createSession call of signUp and signIn, and their return
MintSession(p, operation) ==
  \E id \in {generateSessionId(Cardinality(usedSessionIds))} :
    LET created == createSession([id |-> id, userId |-> proc[p].user.id,
                                  expiresAt |-> now + sessionExpiresIn])
        value   == AuthResult(proc[p].user, created.session)
    IN  /\ proc[p].pc = "createSession"
        /\ proc[p].op = operation
        /\ sessions' = created.sessions
        /\ usedSessionIds' = usedSessionIds \cup {id}
        /\ minted' = minted \cup {Mint(operation, value, proc[p].email,
                                       proc[p].password)}
        /\ proc' = [proc EXCEPT ![p].pc = "done",
                                ![p].session = created.session,
                                ![p].calls = Append(@, "createSession"),
                                ![p].result = Returned(value)]
        /\ UNCHANGED <<users, emailIndex, now, codec>>

SignUpCreateSession(p) == MintSession(p, "signUp")

\* a signIn that tells an unknown email from a wrong password
signInCheckDistinct(user, password) ==
  IF user = Null
  THEN Thrown([InvalidCredentialsError EXCEPT !.message = "User not found"])
  ELSE IF ~verifyPassword(password, user.hashedPassword)
       THEN Thrown(InvalidCredentialsError)
       ELSE NoResult

\* the two checks of signIn: the error it throws, or NoResult to go on
signInCheck(user, password) ==
  IF user = Null THEN Thrown(InvalidCredentialsError)
  ELSE IF ~verifyPassword(password, user.hashedPassword)
       THEN Thrown(InvalidCredentialsError)
       ELSE NoResult

\* the ids of the stored sessions of a user
UserSessions(userId) ==
  {sid \in DOMAIN sessions : sessions[sid].userId = userId}

\* a signIn that revokes the sessions of the user when the password is wrong
SignInOfRevokes(p, emails, passwords) ==
  \E email \in emails, password \in passwords :
    LET normalizedEmail == normalizeEmail(email)
        user    == getUserByEmail(normalizedEmail)
        check   == signInCheck(user, password)
        started == [proc[p] EXCEPT !.op = "signIn", !.email = email,
                                   !.password = password,
                                   !.lookup = normalizedEmail,
                                   !.calls = <<"getUserByEmail">>]
    IN  /\ proc[p].pc = "idle"
        /\ check = NoResult => SessionIdLeft
        /\ proc' = [proc EXCEPT ![p] =
             IF check # NoResult
             THEN [started EXCEPT !.pc = "done", !.result = check]
             ELSE [started EXCEPT !.pc = "createSession", !.user = user,
                                  !.seen = UserSessions(user.id)]]
        /\ sessions' = IF check # NoResult /\ user # Null
                       THEN deleteUserSessions(user.id) ELSE sessions
        /\ UNCHANGED <<users, emailIndex, now, usedSessionIds, minted, codec>>

\* signIn up to its createSession call
SignInOf(p, emails, passwords) ==
  \E email \in emails, password \in passwords :
    LET normalizedEmail == normalizeEmail(email)
        user    == getUserByEmail(normalizedEmail)
        check   == signInCheck(user, password)
        started == [proc[p] EXCEPT !.op = "signIn", !.email = email,
                                   !.password = password,
                                   !.lookup = normalizedEmail,
                                   !.calls = <<"getUserByEmail">>]
    IN  /\ proc[p].pc = "idle"
        /\ check = NoResult => SessionIdLeft
        /\ proc' = [proc EXCEPT ![p] =
             IF check # NoResult
             THEN [started EXCEPT !.pc = "done", !.result = check]
             ELSE [started EXCEPT !.pc = "createSession", !.user = user,
                                  !.seen = UserSessions(user.id)]]
        /\ UNCHANGED <<users, emailIndex, sessions, now, usedSessionIds, minted, codec>>

\* signIn called with one of the emails and passwords callers submit
SignIn(p) == SignInOf(p, Emails, Passwords)

SignInCreateSession(p) == MintSession(p, "signIn")

\* validateSession up to the return of getSession
ValidateSessionOf(p, presented) ==
  \E sessionId \in presented :
    LET session == getSession(sessionId)
        started == [proc[p] EXCEPT !.op = "validateSession",
                                   !.id = sessionId,
                                   !.calls = <<"getSession">>]
    IN  /\ proc[p].pc = "idle"
        /\ proc' = [proc EXCEPT ![p] =
             IF session = Null
             THEN [started EXCEPT !.pc = "done", !.result = Returned(Null)]
             ELSE [started EXCEPT !.pc = "checkSession",
                                  !.session = session]]
        /\ UNCHANGED <<users, emailIndex, sessions, now, usedSessionIds, minted, codec>>

\* validateSession called with one of the strings callers present
ValidateSession(p) == ValidateSessionOf(p, Presented)

\* a check that renews an expired session instead of deleting it
ValidateSessionCheckRenews(p) ==
  LET session == proc[p].session
      user    == getUserById(session.userId)
  IN  /\ proc[p].pc = "checkSession"
      /\ IF now > session.expiresAt
         THEN /\ sessions' = MapSet(sessions, proc[p].id,
                     [session EXCEPT !.expiresAt = now + sessionExpiresIn])
              /\ proc' = [proc EXCEPT ![p].pc = "done",
                                      ![p].calls = Append(@, "deleteSession"),
                                      ![p].result = Returned(Null)]
         ELSE /\ sessions' = sessions
              /\ proc' = [proc EXCEPT ![p] =
                   IF user = Null
                   THEN [@ EXCEPT !.pc = "deleteOrphan",
                                  !.calls = Append(@, "getUserById")]
                   ELSE [@ EXCEPT !.pc = "done",
                                  !.calls = Append(@, "getUserById"),
                                  !.result = Returned(
                                     [user |-> toSafeUser(user),
                                      session |-> session])]]
      /\ UNCHANGED <<users, emailIndex, now, usedSessionIds, minted, codec>>

\* a validateSession with sliding expiry: a session found active is stored
\* again with its expiry moved on
ValidateSessionCheckSlides(p) ==
  LET session == proc[p].session
      user    == getUserById(session.userId)
      renewed == [session EXCEPT !.expiresAt = now + sessionExpiresIn]
  IN  /\ proc[p].pc = "checkSession"
      /\ IF now > session.expiresAt
         THEN /\ sessions' = deleteSession(proc[p].id)
              /\ proc' = [proc EXCEPT ![p].pc = "done",
                                      ![p].calls = Append(@, "deleteSession"),
                                      ![p].result = Returned(Null)]
         ELSE /\ sessions' = IF user = Null THEN sessions
                             ELSE MapSet(sessions, proc[p].id, renewed)
              /\ proc' = [proc EXCEPT ![p] =
                   IF user = Null
                   THEN [@ EXCEPT !.pc = "deleteOrphan",
                                  !.calls = Append(@, "getUserById")]
                   ELSE [@ EXCEPT !.pc = "done",
                                  !.calls = Append(@, "getUserById"),
                                  !.result = Returned(
                                     [user |-> toSafeUser(user),
                                      session |-> renewed])]]
      /\ UNCHANGED <<users, emailIndex, now, usedSessionIds, minted, codec>>

\* a validateSession that treats a session as expired from expiresAt on
ValidateSessionCheckAtExpiry(p) ==
  LET session == proc[p].session
      user    == getUserById(session.userId)
  IN  /\ proc[p].pc = "checkSession"
      /\ IF now >= session.expiresAt
         THEN /\ sessions' = deleteSession(proc[p].id)
              /\ proc' = [proc EXCEPT ![p].pc = "done",
                                      ![p].calls = Append(@, "deleteSession"),
                                      ![p].result = Returned(Null)]
         ELSE /\ sessions' = sessions
              /\ proc' = [proc EXCEPT ![p] =
                   IF user = Null
                   THEN [@ EXCEPT !.pc = "deleteOrphan",
                                  !.calls = Append(@, "getUserById")]
                   ELSE [@ EXCEPT !.pc = "done",
                                  !.calls = Append(@, "getUserById"),
                                  !.result = Returned(
                                     [user |-> toSafeUser(user),
                                      session |-> session])]]
      /\ UNCHANGED <<users, emailIndex, now, usedSessionIds, minted, codec>>

\* validateSession: the expiry check, then the lookup of the user
ValidateSessionCheck(p) ==
  LET session == proc[p].session
      user    == getUserById(session.userId)
  IN  /\ proc[p].pc = "checkSession"
      /\ IF now > session.expiresAt
         THEN /\ sessions' = deleteSession(proc[p].id)
              /\ proc' = [proc EXCEPT ![p].pc = "done",
                                      ![p].calls = Append(@, "deleteSession"),
                                      ![p].result = Returned(Null)]
         ELSE /\ sessions' = sessions
              /\ proc' = [proc EXCEPT ![p] =
                   IF user = Null
                   THEN [@ EXCEPT !.pc = "deleteOrphan",
                                  !.calls = Append(@, "getUserById")]
                   ELSE [@ EXCEPT !.pc = "done",
                                  !.calls = Append(@, "getUserById"),
                                  !.result = Returned(
                                     [user |-> toSafeUser(user),
                                      session |-> session])]]
      /\ UNCHANGED <<users, emailIndex, now, usedSessionIds, minted, codec>>

\* a clean-up that returns null and leaves the session where it is
ValidateSessionCleanupKeeps(p) ==
  /\ proc[p].pc = "deleteOrphan"
  /\ sessions' = sessions
  /\ proc' = [proc EXCEPT ![p].pc = "done",
                          ![p].calls = Append(@, "deleteSession"),
                          ![p].result = Returned(Null)]
  /\ UNCHANGED <<users, emailIndex, now, usedSessionIds, minted, codec>>

\* validateSession: the session of a user that no longer exists is deleted
ValidateSessionCleanup(p) ==
  /\ proc[p].pc = "deleteOrphan"
  /\ sessions' = deleteSession(proc[p].id)
  /\ proc' = [proc EXCEPT ![p].pc = "done",
                          ![p].calls = Append(@, "deleteSession"),
                          ![p].result = Returned(Null)]
  /\ UNCHANGED <<users, emailIndex, now, usedSessionIds, minted, codec>>

\* a signOut that fails when no session has the id
SignOutStrict(p) ==
  \E sessionId \in Presented :
    /\ proc[p].pc = "idle"
    /\ sessions' = deleteSession(sessionId)
    /\ proc' = [proc EXCEPT ![p] =
         [@ EXCEPT !.pc = "done", !.op = "signOut", !.id = sessionId,
                   !.calls = <<"deleteSession">>,
                   !.result = IF sessionId \in DOMAIN sessions
                              THEN Returned(Void)
                              ELSE Thrown([name    |-> "Error",
                                           code    |-> "SESSION_NOT_FOUND",
                                           message |-> "Session not found"])]]
    /\ UNCHANGED <<users, emailIndex, now, usedSessionIds, minted, codec>>

\* a signOut that returns and leaves the session stored
SignOutOfKeeps(p, presented) ==
  \E sessionId \in presented :
    /\ proc[p].pc = "idle"
    /\ proc' = [proc EXCEPT ![p] =
         [@ EXCEPT !.pc = "done", !.op = "signOut", !.id = sessionId,
                   !.calls = <<"deleteSession">>,
                   !.result = Returned(Void)]]
    /\ UNCHANGED <<users, emailIndex, sessions, now, usedSessionIds, minted, codec>>

SignOutOf(p, presented) ==
  \E sessionId \in presented :
    /\ proc[p].pc = "idle"
    /\ sessions' = deleteSession(sessionId)
    /\ proc' = [proc EXCEPT ![p] =
         [@ EXCEPT !.pc = "done", !.op = "signOut", !.id = sessionId,
                   !.calls = <<"deleteSession">>,
                   !.result = Returned(Void)]]
    /\ UNCHANGED <<users, emailIndex, now, usedSessionIds, minted, codec>>

\* signOut called with one of the strings callers present
SignOut(p) == SignOutOf(p, Presented)

\* a signOutAll that removes the user along with the sessions
SignOutAllDeletesUser(p) ==
  \E userId \in UserIds :
    /\ proc[p].pc = "idle"
    /\ sessions' = deleteUserSessions(userId)
    /\ users' = MapDelete(users, userId)
    /\ proc' = [proc EXCEPT ![p] =
         [@ EXCEPT !.pc = "done", !.op = "signOutAll", !.id = userId,
                   !.calls = <<"deleteUserSessions">>,
                   !.result = Returned(Void)]]
    /\ UNCHANGED <<emailIndex, now, usedSessionIds, minted, codec>>

\* a signOutAll that also fails the calls in flight for the user
SignOutAllCancels(p) ==
  \E userId \in UserIds :
    /\ proc[p].pc = "idle"
    /\ sessions' = deleteUserSessions(userId)
    /\ proc' = [q \in DOMAIN proc |->
         IF q = p
         THEN [proc[q] EXCEPT !.pc = "done", !.op = "signOutAll",
                              !.id = userId,
                              !.calls = <<"deleteUserSessions">>,
                              !.result = Returned(Void)]
         ELSE IF proc[q].pc = "createSession" /\ proc[q].user.id = userId
              THEN [proc[q] EXCEPT !.pc = "done",
                                   !.result = Thrown(InvalidCredentialsError)]
              ELSE proc[q]]
    /\ UNCHANGED <<users, emailIndex, now, usedSessionIds, minted, codec>>

SignOutAllOf(p, userIds) ==
  \E userId \in userIds :
    /\ proc[p].pc = "idle"
    /\ sessions' = deleteUserSessions(userId)
    /\ proc' = [proc EXCEPT ![p] =
         [@ EXCEPT !.pc = "done", !.op = "signOutAll", !.id = userId,
                   !.calls = <<"deleteUserSessions">>,
                   !.result = Returned(Void)]]
    /\ UNCHANGED <<users, emailIndex, now, usedSessionIds, minted, codec>>

\* signOutAll called with one of the user ids
SignOutAll(p) == SignOutAllOf(p, UserIds)

\* the caller takes the result; it may then call again
Return(p) ==
  /\ proc[p].pc = "done"
  /\ proc' = [proc EXCEPT ![p] = IdleProc]
  /\ UNCHANGED <<users, emailIndex, sessions, now, usedSessionIds, minted, codec>>

\* time passes
Tick ==
  /\ now < MaxTime
  /\ now' = now + 1
  /\ UNCHANGED <<users, emailIndex, sessions, usedSessionIds, proc, minted, codec>>

\* the token codec at rest
CodecIdle ==
  [pc |-> "idle", sessionId |-> <<>>, secret |-> <<>>, verifyKey |-> <<>>,
   token |-> <<>>, verified |-> NullString]

\* the state after construction: an empty store, no operation in flight
Init ==
  /\ users = <<>>
  /\ emailIndex = <<>>
  /\ sessions = <<>>
  /\ now = 0
  /\ usedSessionIds = {}
  /\ proc = [p \in Procs |-> IdleProc]
  /\ minted = {}
  /\ codec = CodecIdle

\* the operations run one after the other: a call starts when none is in flight
Next ==
  \/ AllIdle /\ \E p \in Procs : SignUp(p)
  \/ \E p \in Procs : SignUpCreateUser(p)
  \/ \E p \in Procs : SignUpCreateSession(p)
  \/ AllIdle /\ \E p \in Procs : SignIn(p)
  \/ \E p \in Procs : SignInCreateSession(p)
  \/ AllIdle /\ \E p \in Procs : ValidateSession(p)
  \/ \E p \in Procs : ValidateSessionCheck(p)
  \/ AllIdle /\ \E p \in Procs : SignOut(p)
  \/ AllIdle /\ \E p \in Procs : SignOutAll(p)
  \/ \E p \in Procs : Return(p)
  \/ Tick

Spec == Init /\ [][Next]_vars

(***************************************************************************)
(* FineAuth with a storage that something else writes to as well: a user   *)
(* record can disappear from storage without the core having removed it,   *)
(* which leaves the sessions of that user orphaned.                        *)
(***************************************************************************)
\* a user record is removed from storage, not by FineAuth
ExternalDeleteUser(id) ==
  /\ id \in DOMAIN users
  /\ users' = MapDelete(users, id)
  /\ emailIndex' = MapDelete(emailIndex, toLowerCase(users[id].email))
  /\ UNCHANGED <<sessions, now, usedSessionIds, proc, minted, codec>>

NextOrphan ==
  \/ Next
  \/ \E p \in Procs : ValidateSessionCleanup(p)
  \/ \E id \in UserIds : ExternalDeleteUser(id)

SpecOrphan == Init /\ [][NextOrphan]_vars

(***************************************************************************)
(* FineAuth called by several callers at once: a call starts at any time,  *)
(* and the storage calls of the calls in flight interleave in every order. *)
(* Each storage call is atomic; an operation is not.                       *)
(***************************************************************************)
Callers == 1..NumCallers

\* what the concurrent callers submit: one email in two spellings, its
\* password, and the ids of sessions
ConcEmails == {<<"a">>, <<"A", " ">>}

ConcPasswords == {<<"p">>}

ConcPresented == SessionIds

InitConc ==
  /\ users = <<>>
  /\ emailIndex = <<>>
  /\ sessions = <<>>
  /\ now = 0
  /\ usedSessionIds = {}
  /\ proc = [p \in Callers |-> IdleProc]
  /\ minted = {}
  /\ codec = CodecIdle

NextConc ==
  \/ \E p \in Callers : SignUpOf(p, ConcEmails, ConcPasswords)
  \/ \E p \in Callers : SignUpCreateUser(p)
  \/ \E p \in Callers : SignUpCreateSession(p)
  \/ \E p \in Callers : SignInOf(p, ConcEmails, ConcPasswords)
  \/ \E p \in Callers : SignInCreateSession(p)
  \/ \E p \in Callers : ValidateSessionOf(p, ConcPresented)
  \/ \E p \in Callers : ValidateSessionCheck(p)
  \/ \E p \in Callers : SignOutOf(p, ConcPresented)
  \/ \E p \in Callers : SignOutAll(p)
  \/ \E p \in Callers : Return(p)
  \/ Tick

SpecConc == InitConc /\ [][NextConc]_vars

(***************************************************************************)
(* Concurrent callers whose signUp calls do not interleave with one        *)
(* another: a signUp starts when no other signUp is in flight.  The other  *)
(* operations interleave freely with it and with each other.               *)
(***************************************************************************)
\* what the callers submit: one email in two spellings, and another email
SerialEmails == ConcEmails \cup {<<"b">>}

\* no signUp is between its look-up and its return
NoSignUpInFlight ==
  \A q \in DOMAIN proc :
    ~(proc[q].op = "signUp" /\ proc[q].pc \in {"createUser", "createSession"})

NextSerial ==
  \/ NoSignUpInFlight /\ \E p \in Callers : SignUpOf(p, SerialEmails, ConcPasswords)
  \/ \E p \in Callers : SignUpCreateUser(p)
  \/ \E p \in Callers : SignUpCreateSession(p)
  \/ \E p \in Callers : SignInOf(p, SerialEmails, ConcPasswords)
  \/ \E p \in Callers : SignInCreateSession(p)
  \/ \E p \in Callers : ValidateSessionOf(p, ConcPresented)
  \/ \E p \in Callers : ValidateSessionCheck(p)
  \/ \E p \in Callers : SignOutOf(p, ConcPresented)
  \/ \E p \in Callers : SignOutAll(p)
  \/ \E p \in Callers : Return(p)

SpecSerial == InitConc /\ [][NextSerial]_vars

(***************************************************************************)
(* Concurrent callers with storage that answers every call: whenever a     *)
(* call in flight has a storage call outstanding, the storage eventually   *)
(* responds to it.  Users may be removed from outside.                     *)
(***************************************************************************)
\* what the callers submit: one email and its password
LiveEmails == {<<"a">>}

\* the session id they present: the first one made
LivePresented == {generateSessionId(0)}

\* the user whose sessions they sign out, and who is removed from outside:
\* the first one made
LiveUsers == {generateUserId(0)}

\* the storage answers the storage call that p has outstanding
StorageResponds(p) ==
  \/ SignUpCreateUser(p)
  \/ SignUpCreateSession(p)
  \/ SignInCreateSession(p)
  \/ ValidateSessionCheck(p)
  \/ ValidateSessionCleanup(p)

NextLive ==
  \/ \E p \in Callers : SignUpOf(p, LiveEmails, ConcPasswords)
  \/ \E p \in Callers : SignInOf(p, LiveEmails, ConcPasswords)
  \/ \E p \in Callers : ValidateSessionOf(p, LivePresented)
  \/ \E p \in Callers : SignOutOf(p, LivePresented)
  \/ \E p \in Callers : SignOutAllOf(p, LiveUsers)
  \/ \E p \in Callers : StorageResponds(p)
  \/ \E id \in LiveUsers : ExternalDeleteUser(id)
  \/ \E p \in Callers : Return(p)

SpecLive ==
  /\ InitConc
  /\ [][NextLive]_vars
  /\ \A p \in Callers : WF_vars(StorageResponds(p))

(***************************************************************************)
(* Storage faults: any storage call may fail.  A failed call changes       *)
(* nothing in storage and raises one of the backend's errors.              *)
(***************************************************************************)
\* what a storage backend raises when a call fails
StorageFaults ==
  {[name |-> "Error", code |-> "ECONNRESET", message |-> "read ECONNRESET"],
   [name |-> "Error", code |-> "ETIMEDOUT", message |-> "connect ETIMEDOUT"]}

\* the first storage call of each operation
FirstCall ==
  [signUp |-> "getUserByEmail", signIn |-> "getUserByEmail",
   validateSession |-> "getSession", signOut |-> "deleteSession",
   signOutAll |-> "deleteUserSessions"]

\* the storage call a call in flight makes next
NextCall(p) ==
  CASE proc[p].pc = "createUser"    -> "createUser"
    [] proc[p].pc = "createSession" -> "createSession"
    [] proc[p].pc = "checkSession"  ->
         IF now > proc[p].session.expiresAt THEN "deleteSession"
         ELSE "getUserById"
    [] proc[p].pc = "deleteOrphan"  -> "deleteSession"

\* a rejection that reaches the caller as an error of the manager's own
rejectsWrapped(fault) ==
  Thrown([name |-> "FineAuthError", code |-> "STORAGE_ERROR",
          message |-> fault.message])

\* an awaited storage call rejects: no operation has a try / catch, so the
\* async function rejects with the same reason
rejects(fault) == Thrown(fault)

\* the first storage call of an operation fails, whatever was submitted
FirstCallFails(p) ==
  \E operation \in DOMAIN FirstCall, fault \in StorageFaults :
    /\ proc[p].pc = "idle"
    /\ proc' = [proc EXCEPT ![p] =
         [@ EXCEPT !.pc = "done", !.op = operation,
                   !.calls = <<FirstCall[operation]>>,
                   !.fault = fault,
                   !.result = rejects(fault)]]
    /\ UNCHANGED <<users, emailIndex, sessions, now, usedSessionIds, minted, codec>>

\* a failure that undoes createUser when the createSession of signUp fails
LaterCallFailsRollsBack(p) ==
  \E fault \in StorageFaults :
    LET undo == proc[p].op = "signUp" /\ proc[p].pc = "createSession"
                  /\ proc[p].user.id \in DOMAIN users
    IN  /\ proc[p].pc \in {"createUser", "createSession", "checkSession",
                           "deleteOrphan"}
        /\ proc' = [proc EXCEPT ![p] =
             [@ EXCEPT !.pc = "done",
                       !.calls = Append(@, NextCall(p)),
                       !.fault = fault,
                       !.result = rejects(fault)]]
        /\ users' = IF undo THEN MapDelete(users, proc[p].user.id) ELSE users
        /\ emailIndex' = IF undo
                         THEN MapDelete(emailIndex,
                                        toLowerCase(proc[p].user.email))
                         ELSE emailIndex
        /\ UNCHANGED <<sessions, now, usedSessionIds, minted, codec>>

\* a later storage call of an operation fails
LaterCallFails(p) ==
  \E fault \in StorageFaults :
    /\ proc[p].pc \in {"createUser", "createSession", "checkSession",
                       "deleteOrphan"}
    /\ proc' = [proc EXCEPT ![p] =
         [@ EXCEPT !.pc = "done",
                   !.calls = Append(@, NextCall(p)),
                   !.fault = fault,
                   !.result = rejects(fault)]]
    /\ UNCHANGED <<users, emailIndex, sessions, now, usedSessionIds, minted, codec>>

\* the operations one call at a time, users removed from outside, and
\* storage calls that fail
NextFault ==
  \/ AllIdle /\ \E p \in Procs : SignUpOf(p, ConcEmails, Passwords)
  \/ \E p \in Procs : SignUpCreateUser(p)
  \/ \E p \in Procs : SignUpCreateSession(p)
  \/ AllIdle /\ \E p \in Procs : SignInOf(p, ConcEmails, Passwords)
  \/ \E p \in Procs : SignInCreateSession(p)
  \/ AllIdle /\ \E p \in Procs : ValidateSessionOf(p, ConcPresented)
  \/ \E p \in Procs : ValidateSessionCheck(p)
  \/ \E p \in Procs : ValidateSessionCleanup(p)
  \/ AllIdle /\ \E p \in Procs : SignOutOf(p, ConcPresented)
  \/ AllIdle /\ \E p \in Procs : SignOutAll(p)
  \/ AllIdle /\ \E p \in Procs : FirstCallFails(p)
  \/ \E p \in Procs : LaterCallFails(p)
  \/ \E id \in UserIds : ExternalDeleteUser(id)
  \/ \E p \in Procs : Return(p)
  \/ Tick

SpecFault == Init /\ [][NextFault]_vars

(***************************************************************************)
(* Construction: new FineAuth(config) and parseDuration (src/src/auth.ts). *)
(***************************************************************************)
\* the value of a property that holds a string, a number or nothing
JsUndefined == [type |-> "undefined", n |-> 0, s |-> <<>>]

JsNumber(n) == [type |-> "number", n |-> n, s |-> <<>>]

JsString(s) == [type |-> "string", n |-> 0, s |-> s]

\* ToBoolean: what `!v` and `v ? a : b` test
Truthy(v) ==
  CASE v.type = "undefined" -> FALSE
    [] v.type = "number"    -> v.n # 0
    [] v.type = "string"    -> v.s # <<>>

ConfigurationError(message) ==
  [name    |-> "ConfigurationError",
   code    |-> "CONFIGURATION_ERROR",
   message |-> message]

DecimalDigits == <<"0", "1", "2", "3", "4", "5", "6", "7", "8", "9">>

\* \d
IsDigit(c) == \E i \in DOMAIN DecimalDigits : DecimalDigits[i] = c

DigitValue(c) == (CHOOSE i \in DOMAIN DecimalDigits : DecimalDigits[i] = c) - 1

\* the length of the run of digits a string starts with: what ^(\d+) takes
RECURSIVE LeadingDigits(_)
LeadingDigits(s) ==
  IF s = <<>> \/ ~IsDigit(Head(s)) THEN 0 ELSE 1 + LeadingDigits(Tail(s))

\* parseInt(digits, 10) of a string of digits
RECURSIVE parseInt(_)
parseInt(digits) ==
  IF digits = <<>> THEN 0
  ELSE 10 * parseInt(SubSeq(digits, 1, Len(digits) - 1))
         + DigitValue(digits[Len(digits)])

\* (ms|s|m|h|d)
DurationUnits == {<<"m", "s">>, <<"s">>, <<"m">>, <<"h">>, <<"d">>}

\* the factor of the switch over the unit
unitMilliseconds(unit) ==
  CASE unit = <<"m", "s">> -> 1
    [] unit = <<"s">>      -> 1000
    [] unit = <<"m">>      -> 60 * 1000
    [] unit = <<"h">>      -> 60 * 60 * 1000
    [] unit = <<"d">>      -> 24 * 60 * 60 * 1000

\* duration.match(/^(\d+)(ms|s|m|h|d)$/) is not null
durationMatches(duration) ==
  /\ LeadingDigits(duration) > 0
  /\ Drop(duration, LeadingDigits(duration) + 1) \in DurationUnits

parseDuration(duration) ==
  IF duration.type = "number" THEN Returned(duration.n)
  ELSE IF ~durationMatches(duration.s)
       THEN Thrown(ConfigurationError("Invalid duration format: ${duration}"))
       ELSE LET k == LeadingDigits(duration.s) IN
            Returned(parseInt(SubSeq(duration.s, 1, k))
                       * unitMilliseconds(Drop(duration.s, k + 1)))

\* the literal the constructor parses when it takes the default
DefaultExpiresIn == JsString(<<"7", "d">>)

\* config.session?.expiresIn
expiresInOf(config) ==
  IF config.session.defined THEN config.session.expiresIn ELSE JsUndefined

\* a constructor that accepts a configuration with no method enabled
constructorAnyMethod(config) ==
  IF ~Truthy(config.secret)
  THEN Thrown(ConfigurationError("secret is required"))
  ELSE IF ~config.db
  THEN Thrown(ConfigurationError("db is required"))
  ELSE LET parsed == IF Truthy(expiresInOf(config))
                     THEN parseDuration(expiresInOf(config))
                     ELSE parseDuration(DefaultExpiresIn)
       IN  IF parsed.kind = "throw" THEN parsed
           ELSE Returned([sessionExpiresIn |-> parsed.value,
                          warnings |-> <<>>])

\* new FineAuth(config): the error it throws, or the manager with its
\* sessionExpiresIn and the warnings the constructor printed
constructor(config) ==
  IF ~Truthy(config.secret)
  THEN Thrown(ConfigurationError("secret is required"))
  ELSE IF ~config.db
  THEN Thrown(ConfigurationError("db is required"))
  ELSE IF ~config.method.defined \/ ~config.method.email
  THEN Thrown(ConfigurationError("At least one auth method must be enabled"))
  ELSE LET parsed == IF Truthy(expiresInOf(config))
                     THEN parseDuration(expiresInOf(config))
                     ELSE parseDuration(DefaultExpiresIn)
       IN  IF parsed.kind = "throw" THEN parsed
           ELSE Returned([sessionExpiresIn |-> parsed.value,
                          warnings |-> <<>>])

\* the secrets a manager is configured with: none, the empty string, a
\* short one, one a character short of the recommended length, one of it
ConfigSecrets ==
  {JsUndefined, JsString(<<>>), JsString(<<"k">>),
   JsString([i \in 1..(MinSecretLength - 1) |-> "k"]),
   JsString([i \in 1..MinSecretLength |-> "k"])}

\* config.method: absent, with email off or left out, with email on
ConfigMethods ==
  {[defined |-> FALSE, email |-> FALSE], [defined |-> TRUE, email |-> FALSE],
   [defined |-> TRUE, email |-> TRUE]}

\* session.expiresIn as a number of milliseconds
ConfigNumbers == {JsNumber(0), JsNumber(1), JsNumber(1500), JsNumber(604800000)}

\* session.expiresIn as a string: duration literals and strings that are none
ConfigLiterals ==
  {JsString(s) : s \in
     {<<"2", "5", "0", "m", "s">>, <<"4", "5", "s">>, <<"3", "0", "m">>,
      <<"2", "h">>, <<"1", "d">>, <<"7", "d">>, <<"0", "d">>,
      <<"0", "1", "h">>}}
  \cup
  {JsString(s) : s \in
     {<<>>, <<"7">>, <<"1", "5", "0", "0">>, <<"-", "1", "d">>,
      <<"1", ".", "5", "h">>, <<"1", "w">>, <<"1", "D">>, <<"d">>,
      <<"1", " ", "d">>, <<" ", "1", "d">>, <<"1", "d", " ">>,
      <<"1", "d", "d">>, <<"1", "m", "s", "s">>}}

\* config.session: absent, without expiresIn, with a number, with a string
ConfigSessions ==
  {[defined |-> FALSE, expiresIn |-> JsUndefined]}
    \cup {[defined |-> TRUE, expiresIn |-> v] :
            v \in {JsUndefined} \cup ConfigNumbers \cup ConfigLiterals}

Configs ==
  [secret : ConfigSecrets, db : BOOLEAN, method : ConfigMethods,
   session : ConfigSessions]

\* before the constructor runs
ConfigIdle ==
  [pc |-> "config", config |-> CHOOSE c \in Configs : TRUE,
   error |-> NoError, sessionExpiresIn |-> 0, warnings |-> <<>>,
   issuedAt |-> 0, expiresAt |-> 0]

InitConfig ==
  /\ users = <<>>
  /\ emailIndex = <<>>
  /\ sessions = <<>>
  /\ now = 0
  /\ usedSessionIds = {}
  /\ proc = [p \in Procs |-> IdleProc]
  /\ minted = {}
  /\ \E c \in Configs : codec = [ConfigIdle EXCEPT !.config = c]

\* new FineAuth(config)
Construct ==
  LET made == constructor(codec.config) IN
  /\ codec.pc = "config"
  /\ codec' =
       IF made.kind = "throw"
       THEN [codec EXCEPT !.pc = "failed", !.error = made.error]
       ELSE [codec EXCEPT !.pc = "constructed",
                          !.sessionExpiresIn = made.value.sessionExpiresIn,
                          !.warnings = made.value.warnings]
  /\ UNCHANGED authVars

\* signUp / signIn of the constructed manager set the expiry of the session
\* they create: new Date(Date.now() + this.sessionExpiresIn)
ConfigIssue ==
  \E t \in 0..MaxTime :
    /\ codec.pc = "constructed"
    /\ codec' = [codec EXCEPT !.pc = "issued", !.issuedAt = t,
                              !.expiresAt = t + codec.sessionExpiresIn]
    /\ UNCHANGED authVars

NextConfig == Construct \/ ConfigIssue

SpecConfig == InitConfig /\ [][NextConfig]_vars

(***************************************************************************)
(* new Database(config) (database.ts, in src/README.md) and the manager    *)
(* constructed on it.                                                      *)
(***************************************************************************)
\* DatabaseType, and a string that is none of its members
DatabaseTypes ==
  {"postgresql", "mongodb", "mongoose", "prisma", "drizzle-pg",
   "drizzle-mysql", "better-sqlite3", "memory"}

\* config.client: left out, a pg.Pool, a MongoDB Db
DatabaseClients == {"undefined", "pg.Pool", "MongoDatabase"}

DatabaseConfigs ==
  [type : DatabaseTypes \cup {"sqlite"}, client : DatabaseClients]

\* what createAdapter returns: the adapter made, or the error thrown
AdapterMade(adapter) == [kind |-> "return", error |-> NoError, adapter |-> adapter]

AdapterFailed(message) ==
  [kind |-> "throw", error |-> ConfigurationError(message), adapter |-> "none"]

\* Database.createAdapter: the switch over config.type
createAdapter(config) ==
  CASE config.type = "memory" -> AdapterMade("memory")
    [] config.type = "postgresql" ->
         IF config.client = "undefined"
         THEN AdapterFailed(
                "PostgreSQL requires a client (pg.Pool) to be provided")
         ELSE AdapterMade("postgresql")
    [] config.type \in {"mongodb", "mongoose", "prisma", "drizzle-pg",
                        "drizzle-mysql", "better-sqlite3"} ->
         AdapterFailed("Database type is not yet supported. Coming soon!")
    [] OTHER -> AdapterFailed("Unknown database type")

\* before new Database(config) runs
DatabaseIdle ==
  [pc |-> "config", database |-> CHOOSE c \in DatabaseConfigs : TRUE,
   secret |-> JsUndefined, adapter |-> "none", error |-> NoError,
   sessionExpiresIn |-> 0]

InitDatabase ==
  /\ users = <<>>
  /\ emailIndex = <<>>
  /\ sessions = <<>>
  /\ now = 0
  /\ usedSessionIds = {}
  /\ proc = [p \in Procs |-> IdleProc]
  /\ minted = {}
  /\ \E c \in DatabaseConfigs, k \in ConfigSecrets :
       codec = [DatabaseIdle EXCEPT !.database = c, !.secret = k]

\* new Database(config)
ConstructDatabase ==
  LET made == createAdapter(codec.database) IN
  /\ codec.pc = "config"
  /\ codec' =
       IF made.kind = "throw"
       THEN [codec EXCEPT !.pc = "failed", !.error = made.error]
       ELSE [codec EXCEPT !.pc = "database", !.adapter = made.adapter]
  /\ UNCHANGED authVars

\* new FineAuth({secret, method: {email: true}, db}) on the Database made
ConstructOnDatabase ==
  LET made == constructor([secret  |-> codec.secret,
                           db      |-> TRUE,
                           method  |-> [defined |-> TRUE, email |-> TRUE],
                           session |-> [defined |-> FALSE,
                                        expiresIn |-> JsUndefined]])
  IN
  /\ codec.pc = "database"
  /\ codec' =
       IF made.kind = "throw"
       THEN [codec EXCEPT !.pc = "failed", !.error = made.error]
       ELSE [codec EXCEPT !.pc = "manager",
                          !.sessionExpiresIn = made.value.sessionExpiresIn]
  /\ UNCHANGED authVars

NextDatabase == ConstructDatabase \/ ConstructOnDatabase

SpecDatabase == InitDatabase /\ [][NextDatabase]_vars

(***************************************************************************)
(* The token codec on its own: a session id is signed with one secret and  *)
(* the token is verified with a secret, the same or another.               *)
(***************************************************************************)
CodecHexChars == {"0", "1", "a"}

\* session ids: non-empty strings of hex digits
CodecSessionIds == StringsOver(CodecHexChars, 1, MaxCodecIdLen)

\* the secrets of the codec runs: two that differ, one longer, and one that
\* differs from another by a trailing U+0000
CodecSecrets == {<<"k">>, <<"j">>, <<"k", "k">>, <<"k", Nul>>}

InitCodec ==
  /\ users = <<>>
  /\ emailIndex = <<>>
  /\ sessions = <<>>
  /\ now = 0
  /\ usedSessionIds = {}
  /\ proc = [p \in Procs |-> IdleProc]
  /\ minted = {}
  /\ \E s \in CodecSessionIds, k \in CodecSecrets, v \in CodecSecrets :
       codec = [CodecIdle EXCEPT !.sessionId = s, !.secret = k,
                                 !.verifyKey = v]

CodecSign ==
  /\ codec.pc = "idle"
  /\ codec' = [codec EXCEPT !.pc = "signed",
                 !.token = signSessionId(codec.sessionId, codec.secret)]
  /\ UNCHANGED authVars

CodecVerify ==
  /\ codec.pc = "signed"
  /\ codec' = [codec EXCEPT !.pc = "verified",
                 !.verified = verifySessionId(codec.token, codec.verifyKey)]
  /\ UNCHANGED authVars

NextCodec == CodecSign \/ CodecVerify

SpecCodec == InitCodec /\ [][NextCodec]_vars

(***************************************************************************)
(* The token codec against tokens that signSessionId did not make: a       *)
(* signed token with one character replaced, with a character appended or  *)
(* with its last character cut off, and short strings of any shape.  The   *)
(* token is verified with the secret it was signed with.                   *)
(***************************************************************************)
\* the characters a token is tampered with
TamperChars == {Charset[i] : i \in 1..Len(Charset)} \cup {Nul}

\* the characters of the short strings presented as tokens
ForgedChars == {"0", ".", "A"}

\* the short strings presented as tokens
ForgedTokens == StringsOver(ForgedChars, 0, MaxForgedLen)

TamperIdle ==
  [pc |-> "idle", sessionId |-> <<>>, secret |-> <<>>, verifyKey |-> <<>>,
   token |-> <<>>, verified |-> NullString, how |-> "none", pos |-> 0,
   presented |-> <<>>]

InitTamper ==
  /\ users = <<>>
  /\ emailIndex = <<>>
  /\ sessions = <<>>
  /\ now = 0
  /\ usedSessionIds = {}
  /\ proc = [p \in Procs |-> IdleProc]
  /\ minted = {}
  /\ \E s \in CodecSessionIds, k \in CodecSecrets :
       codec = [TamperIdle EXCEPT !.sessionId = s, !.secret = k,
                                  !.verifyKey = k]

\* one character of the token is replaced by another character
TamperReplace ==
  \E i \in 1..Len(codec.token), c \in TamperChars :
    /\ codec.pc = "signed"
    /\ c # codec.token[i]
    /\ codec' = [codec EXCEPT !.pc = "presented", !.how = "replace",
                   !.pos = i, !.presented = [codec.token EXCEPT ![i] = c]]
    /\ UNCHANGED authVars

\* a character is appended to the token
TamperAppend ==
  \E c \in TamperChars :
    /\ codec.pc = "signed"
    /\ codec' = [codec EXCEPT !.pc = "presented", !.how = "append",
                   !.pos = Len(codec.token) + 1,
                   !.presented = Append(codec.token, c)]
    /\ UNCHANGED authVars

\* the last character of the token is cut off
TamperTruncate ==
  /\ codec.pc = "signed"
  /\ codec' = [codec EXCEPT !.pc = "presented", !.how = "truncate",
                 !.pos = Len(codec.token),
                 !.presented = SubSeq(codec.token, 1, Len(codec.token) - 1)]
  /\ UNCHANGED authVars

\* a short string is presented in place of the token
TamperForge ==
  \E t \in ForgedTokens :
    /\ codec.pc = "signed"
    /\ codec' = [codec EXCEPT !.pc = "presented", !.how = "forge",
                   !.presented = t]
    /\ UNCHANGED authVars

\* verifySessionId of what is presented
TamperVerify ==
  /\ codec.pc = "presented"
  /\ codec' = [codec EXCEPT !.pc = "verified",
                 !.verified = verifySessionId(codec.presented,
                                              codec.verifyKey)]
  /\ UNCHANGED authVars

NextTamper ==
  \/ CodecSign
  \/ TamperReplace
  \/ TamperAppend
  \/ TamperTruncate
  \/ TamperForge
  \/ TamperVerify

SpecTamper == InitTamper /\ [][NextTamper]_vars

(***************************************************************************)
(* The hasher on its own: a password is hashed, the stored hash is kept    *)
(* as it is or damaged, and a password, the same or another, is verified   *)
(* against it; the key derivation of the verification may fault.           *)
(***************************************************************************)
HashChars == {"p", "q", Nul}

\* the passwords hashed and verified
HashPasswords == StringsOver(HashChars, 1, MaxPasswordLen)

\* what is stored in place of the hash h: h itself, h with the key one byte
\* short or one byte long, h without the delimiter, with a second delimiter,
\* without the salt, without the key, with a key that is no hex, nothing
StoredFor(h) ==
  LET parts == split(h, ":") IN
  [intact   |-> h,
   shortKey |-> SubSeq(h, 1, Len(h) - 2),
   longKey  |-> h \o <<"0", "0">>,
   noColon  |-> parts[1] \o parts[2],
   twoColon |-> h \o <<":">>,
   noSalt   |-> <<":">> \o parts[2],
   noKey    |-> parts[1] \o <<":">>,
   notHex   |-> parts[1] \o <<":", "k", "k">>,
   empty    |-> <<>>]

HashIdle ==
  [pc |-> "idle", password |-> <<>>, candidate |-> <<>>, salt |-> <<>>,
   damage |-> "intact", fault |-> FALSE, hash |-> <<>>, stored |-> <<>>,
   verified |-> FALSE, signIn |-> NoResult]

InitHash ==
  /\ users = <<>>
  /\ emailIndex = <<>>
  /\ sessions = <<>>
  /\ now = 0
  /\ usedSessionIds = {}
  /\ proc = [p \in Procs |-> IdleProc]
  /\ minted = {}
  /\ \E password \in HashPasswords, candidate \in HashPasswords,
        salt \in Salts, damage \in DOMAIN StoredFor(<<":">>),
        fault \in BOOLEAN :
       codec = [HashIdle EXCEPT !.password = password,
                                !.candidate = candidate, !.salt = salt,
                                !.damage = damage, !.fault = fault]

\* hashPassword(password); the stored hash is then damaged or not
HashPassword ==
  LET h == hashPassword(codec.password, codec.salt) IN
  /\ codec.pc = "idle"
  /\ codec' = [codec EXCEPT !.pc = "hashed", !.hash = h,
                            !.stored = StoredFor(h)[codec.damage]]
  /\ UNCHANGED authVars

\* verifyPassword(candidate, stored), and what signIn makes of it for a user
\* with that stored hash
HashVerify ==
  /\ codec.pc = "hashed"
  /\ codec' = [codec EXCEPT
       !.pc = "verified",
       !.verified = verifyPassword(codec.candidate, codec.stored),
       !.signIn = signInCheck([hashedPassword |-> codec.stored],
                              codec.candidate)]
  /\ UNCHANGED authVars

NextHash == HashPassword \/ HashVerify

SpecHash == InitHash /\ [][NextHash]_vars

(***************************************************************************)
(* Claims.                                                                 *)
(***************************************************************************)
\* a finished call of the operation
Done(p, operation) == proc[p].pc = "done" /\ proc[p].op = operation

\* the token codec rejects what the caller presented
FailsVerify(x) == x # Undefined /\ verifySessionId(x, Secret) = NullString

\* C1: a validateSession whose token fails the codec's verify issues no
\* storage call and returns null.
C1_BadTokenTouchesNoStorage ==
  \A p \in Procs :
    (proc[p].op = "validateSession" /\ FailsVerify(proc[p].id)) =>
      /\ proc[p].calls = <<>>
      /\ proc[p].pc = "done" => proc[p].result = Returned(Null)

\* C2: validateSession of the token a signUp or signIn returned, while the
\* session is stored and not expired, returns the user and the session of
\* that signUp or signIn.
C2_MintedTokenValidates ==
  \A p \in Procs : \A m \in minted :
    (/\ Done(p, "validateSession")
     /\ proc[p].id = m.token
     /\ m.sessionId \in DOMAIN sessions
     /\ now <= sessions[m.sessionId].expiresAt) =>
      /\ proc[p].result.value # Null
      /\ proc[p].result.value.session.id = m.sessionId
      /\ proc[p].result.value.user.id = m.userId

\* C10: verifying a signed session id with the secret it was signed with
\* gives the session id back.
C10_RoundTrip ==
  (codec.pc = "verified" /\ codec.verifyKey = codec.secret) =>
    codec.verified = codec.sessionId

\* C10: a session id was signed and then verified with the same secret
C10_Witness ==
  /\ codec.pc = "verified"
  /\ codec.verifyKey = codec.secret
  /\ Len(codec.sessionId) = MaxCodecIdLen
  /\ codec.token # codec.sessionId

\* the call of p returns in this step
Returns(p, operation) ==
  proc[p].pc # "done" /\ proc'[p].pc = "done" /\ proc'[p].op = operation

\* the signed token of a session id, as the codec makes it
SignedToken(sessionId) == signSessionId(sessionId, Secret)

\* C3: validateSession of the correctly signed token of a stored session
\* that has expired returns null and leaves the session deleted.
C3_ExpiredSessionIsDeleted ==
  [][\A p \in Procs : \A sid \in DOMAIN sessions :
       (/\ Returns(p, "validateSession")
        /\ proc'[p].id = SignedToken(sid)
        /\ now > sessions[sid].expiresAt) =>
         /\ proc'[p].result = Returned(Null)
         /\ sid \notin DOMAIN sessions']_vars

\* the strings that name the session of a signUp / signIn to signOut: the
\* token the call returned, the signed token of the session, its raw id
NamesOf(m) == {m.token, SignedToken(m.sessionId), m.sessionId}

\* C4: after signOut of the token (or the raw id) of a stored session the
\* session is gone from storage, and validateSession of its token returns
\* null from then on.
C4_SignOutRemovesSession ==
  /\ \A p \in Procs : \A m \in minted :
       (Done(p, "signOut") /\ proc[p].id \in NamesOf(m)) =>
         m.sessionId \notin DOMAIN sessions
  /\ \A p \in Procs : \A m \in minted :
       (/\ Done(p, "validateSession")
        /\ proc[p].id \in {m.token, SignedToken(m.sessionId)}
        /\ m.sessionId \notin DOMAIN sessions) =>
         proc[p].result = Returned(Null)

\* C5: signOutAll(u) deletes exactly the sessions of u: the sessions of the
\* other users stay as they were, whatever named a session of u validates
\* as null afterwards, and whatever validated for another user still
\* validates with the same result.
C5_SignOutAllIsolation ==
  [][\A p \in Procs :
       Returns(p, "signOutAll") =>
         LET u == proc'[p].id IN
         /\ \A sid \in DOMAIN sessions :
              IF sessions[sid].userId = u
              THEN sid \notin DOMAIN sessions'
              ELSE sid \in DOMAIN sessions' /\ sessions'[sid] = sessions[sid]
         /\ DOMAIN sessions' \subseteq DOMAIN sessions
         /\ users' = users
         /\ \A m \in minted : \A x \in NamesOf(m) :
              m.userId = u => validateSession(x)' = Null
         /\ \A x \in Presented :
              LET before == validateSession(x) IN
              (before # Null /\ before.user.id # u) =>
                validateSession(x)' = before]_vars

\* C5: signOutAll(u) has returned; it deleted a session of u, and a session
\* of another user is still stored and validates
C5_Witness ==
  \E p \in Procs : \E m \in minted : \E sid \in DOMAIN sessions :
    /\ Done(p, "signOutAll")
    /\ m.userId = proc[p].id
    /\ m.sessionId \notin DOMAIN sessions
    /\ sessions[sid].userId # proc[p].id
    /\ validateSession(sid) # Null

\* C6: a signUp whose email, trimmed and lower-cased, is the email of a
\* stored user throws UserAlreadyExistsError and creates nothing.
C6_DuplicateSignUpRejected ==
  [][\A p \in Procs :
       (/\ proc[p].pc = "idle"
        /\ proc'[p].op = "signUp"
        /\ \E id \in DOMAIN users :
             users[id].email = toLowerCase(trim(proc'[p].email))) =>
         /\ proc'[p].pc = "done"
         /\ proc'[p].result = Thrown(UserAlreadyExistsError)
         /\ users' = users
         /\ sessions' = sessions]_vars

\* C6: a signUp was rejected whose email is written differently from the
\* stored one and whose password is not the stored user's
C6_Witness ==
  \E p \in Procs : \E id \in DOMAIN users :
    /\ Done(p, "signUp")
    /\ proc[p].result = Thrown(UserAlreadyExistsError)
    /\ proc[p].email # users[id].email
    /\ toLowerCase(trim(proc[p].email)) = users[id].email
    /\ proc[p].email[1] = " "
    /\ ~verifyPassword(proc[p].password, users[id].hashedPassword)

\* C7: a signIn for an email no user has and a signIn with a wrong password
\* throw the same error: same name, same code, same message.
C7_SignInFailuresAlike ==
  \A p \in Procs :
    Done(p, "signIn") =>
      LET user == getUserByEmail(toLowerCase(trim(proc[p].email))) IN
      /\ user = Null => proc[p].result = Thrown(InvalidCredentialsError)
      /\ (user # Null
            /\ ~verifyPassword(proc[p].password, user.hashedPassword)) =>
           proc[p].result = Thrown(InvalidCredentialsError)
      /\ proc[p].result.kind = "throw" =>
           proc[p].result = Thrown(InvalidCredentialsError)

\* C7: a signIn for an unknown email has failed while a user is stored
C7_Witness ==
  \E p \in Procs :
    /\ Done(p, "signIn")
    /\ users # <<>>
    /\ getUserByEmail(toLowerCase(trim(proc[p].email))) = Null
    /\ proc[p].result.kind = "throw"

\* C8: a successful signIn returns a session id and a token that no earlier
\* signUp / signIn returned, keeps every stored session as it was, and the
\* tokens of all unexpired sessions of the user validate.
C8_SignInAddsSession ==
  [][\A p \in Procs :
       (Returns(p, "signIn") /\ proc'[p].result.kind = "return") =>
         LET value == proc'[p].result.value IN
         /\ value.session.id \notin usedSessionIds
         /\ \A m \in minted :
              /\ m.sessionId # value.session.id
              /\ m.token # TokenOf(value)
         /\ \A sid \in DOMAIN sessions :
              sid \in DOMAIN sessions' /\ sessions'[sid] = sessions[sid]
         /\ \A m \in minted' :
              (/\ m.userId = value.user.id
               /\ m.sessionId \in DOMAIN sessions'
               /\ now <= sessions'[m.sessionId].expiresAt) =>
                validateSession(m.token)' # Null]_vars

\* C9: a signIn with the password of a signUp and an email that, trimmed and
\* lower-cased, is that of the signUp returns the user id the signUp did.
C9_SignInFindsSignedUpUser ==
  \A p \in Procs : \A m \in minted :
    (/\ Done(p, "signIn")
     /\ m.op = "signUp"
     /\ m.email = toLowerCase(trim(proc[p].email))
     /\ m.password = proc[p].password) =>
      /\ proc[p].result.kind = "return"
      /\ proc[p].result.value.user.id = m.userId

\* C9: a signIn has succeeded whose email is written with a capital and a
\* space, for a user that signed up
C9_Witness ==
  \E p \in Procs : \E m \in minted :
    /\ Done(p, "signIn")
    /\ m.op = "signUp"
    /\ proc[p].result.kind = "return"
    /\ proc[p].result.value.user.id = m.userId
    /\ proc[p].email # m.email
    /\ "A" \in {proc[p].email[i] : i \in 1..Len(proc[p].email)}
    /\ " " \in {proc[p].email[i] : i \in 1..Len(proc[p].email)}

\* C11: a signed token with one character replaced by another, in the
\* session id, the delimiter or the signature, or with a character appended,
\* is rejected by verifySessionId with the secret it was signed with.
C11_TamperedTokenRejected ==
  (codec.pc = "verified" /\ codec.how \in {"replace", "append"}) =>
    codec.verified = NullString

\* C11: a character of the signature was replaced by another character of
\* the signature alphabet, and the token was rejected
C11_Witness ==
  /\ codec.pc = "verified"
  /\ codec.how = "replace"
  /\ codec.pos > Len(codec.sessionId) + 1
  /\ \E i \in 1..Len(Base64UrlChars) :
       Base64UrlChars[i] = codec.presented[codec.pos]
  /\ codec.verified = NullString

\* C12: a token signed with one secret and verified with a different secret
\* is rejected.
C12_WrongKeyRejected ==
  (codec.pc = "verified" /\ codec.verifyKey # codec.secret) =>
    codec.verified = NullString

\* buf without the zero bytes at its end
RECURSIVE StripZeros(_)
StripZeros(buf) ==
  IF buf # <<>> /\ buf[Len(buf)] = 0
  THEN StripZeros(SubSeq(buf, 1, Len(buf) - 1))
  ELSE buf

\* the two secrets are different HMAC keys: their bytes differ by more than
\* zero bytes at the end
DifferentKeys(k1, k2) == StripZeros(toBytes(k1)) # StripZeros(toBytes(k2))

\* C12, amended: a token signed with one secret and verified with a secret
\* whose bytes differ from it by more than trailing zero bytes is rejected.
C12_DifferentKeyRejected ==
  (codec.pc = "verified" /\ DifferentKeys(codec.secret, codec.verifyKey)) =>
    codec.verified = NullString

\* C12: a token signed with a secret was verified with a longer secret that
\* starts with it, and was rejected
C12_Witness ==
  /\ codec.pc = "verified"
  /\ codec.secret = <<"k">>
  /\ codec.verifyKey = <<"k", "k">>
  /\ codec.verified = NullString

\* the places of the delimiter in a token
DotsOf(t) == {i \in 1..Len(t) : t[i] = "."}

\* the token is not of the form <session id>.<signature> with both parts
\* non-empty and the signature as long as the signatures secret makes
Malformed(t, secret) ==
  \/ Cardinality(DotsOf(t)) # 1
  \/ \E i \in DotsOf(t) :
       \/ i = 1
       \/ i = Len(t)
       \/ Len(t) - i #
            Len(base64url(hmacDigest(secret, SubSeq(t, 1, i - 1))))

\* C13: verifySessionId of a token without exactly one '.', or with an empty
\* session id or an empty signature, or with a signature of another length
\* than the expected one, returns null; no error escapes it.
C13_MalformedTokenIsNull ==
  (codec.pc = "verified" /\ Malformed(codec.presented, codec.verifyKey)) =>
    codec.verified = NullString

\* C13: a token with one '.', a session id and a signature one character
\* short was verified, and the result was null
C13_Witness ==
  /\ codec.pc = "verified"
  /\ codec.how = "truncate"
  /\ Cardinality(DotsOf(codec.presented)) = 1
  /\ Malformed(codec.presented, codec.verifyKey)
  /\ codec.verified = NullString

\* the hasher has verified against the hash as hashPassword made it, and the
\* key derivation did not fault
VerifiedIntact ==
  codec.pc = "verified" /\ codec.damage = "intact" /\ ~codec.fault

\* C14: verifyPassword(p2, hashPassword(p)) is true for p2 = p and false for
\* every other p2, and the password check of signIn passes exactly for p.
C14_HashRoundTrip ==
  VerifiedIntact =>
    /\ codec.verified = (codec.candidate = codec.password)
    /\ (codec.signIn = NoResult) = (codec.candidate = codec.password)

\* C14, amended: verifyPassword(p2, hashPassword(p)) is true for p2 = p and
\* false for every p2 whose bytes differ from those of p by more than zero
\* bytes at the end, and the password check of signIn passes exactly when
\* verifyPassword is true.
C14_HashRoundTripUpToNul ==
  VerifiedIntact =>
    /\ codec.candidate = codec.password => codec.verified
    /\ DifferentKeys(codec.candidate, codec.password) => ~codec.verified
    /\ (codec.signIn = NoResult) =
         ~DifferentKeys(codec.candidate, codec.password)
    /\ codec.signIn # NoResult =>
         codec.signIn = Thrown(InvalidCredentialsError)

\* C14: a password that is the start of the hashed password was verified
\* against its hash and was refused, by verifyPassword and by signIn
C14_Witness ==
  /\ VerifiedIntact
  /\ codec.password = <<"p", "q">>
  /\ codec.candidate = <<"p">>
  /\ ~codec.verified
  /\ codec.signIn = Thrown(InvalidCredentialsError)

\* the places of the delimiter in a stored hash
ColonsOf(h) == {i \in 1..Len(h) : h[i] = ":"}

\* the stored hash is not <salt>:<key> with both parts non-empty and a key
\* as long as the key scrypt derives
MalformedHash(h) ==
  \/ Cardinality(ColonsOf(h)) # 1
  \/ \E i \in ColonsOf(h) :
       \/ i = 1
       \/ i = Len(h)
       \/ Len(fromHex(SubSeq(h, i + 1, Len(h)))) # ScryptKeyLen

\* C15: verifyPassword returns false, and raises nothing, for a stored hash
\* that is not two non-empty parts around one ':', for a stored key of another
\* length than the derived key, and when the key derivation faults.
C15_VerifyPasswordNeverRaises ==
  (codec.pc = "verified" /\ (MalformedHash(codec.stored) \/ codec.fault)) =>
    /\ codec.verified = FALSE
    /\ codec.signIn = Thrown(InvalidCredentialsError)

\* C15: the right password was verified against its hash with the last byte
\* of the key missing, and the result was false
C15_Witness ==
  /\ codec.pc = "verified"
  /\ codec.damage = "shortKey"
  /\ ~codec.fault
  /\ codec.candidate = codec.password
  /\ MalformedHash(codec.stored)
  /\ codec.verified = FALSE

\* the value a finished call returned carries a user
ReturnsUser(p) ==
  /\ proc[p].pc = "done"
  /\ proc[p].op \in {"signUp", "signIn", "validateSession"}
  /\ proc[p].result.kind = "return"
  /\ proc[p].result.value # Null

\* C16: the user that signUp, signIn and validateSession return has the
\* fields id, email and createdAt of the stored user and no other field; it
\* does not carry the password hash.
C16_ReturnedUserHasNoHash ==
  \A p \in Procs :
    ReturnsUser(p) =>
      LET user   == proc[p].result.value.user
          stored == users[user.id]
      IN  /\ DOMAIN user = {"id", "email", "createdAt"}
          /\ user.email = stored.email
          /\ user.createdAt = stored.createdAt
          /\ user.id # stored.hashedPassword
          /\ user.email # stored.hashedPassword

\* C16: validateSession has returned a user whose stored record holds a
\* password hash
C16_Witness ==
  \E p \in Procs :
    /\ ReturnsUser(p)
    /\ proc[p].op = "validateSession"
    /\ "hashedPassword" \in DOMAIN users[proc[p].result.value.user.id]
    /\ users[proc[p].result.value.user.id].hashedPassword # <<>>

\* C17: a successful signUp or signIn returns a session of the returned user
\* that expires one TTL after the call, is stored under its id, and comes
\* with the token signSessionId(session.id, secret).
C17_ResultShape ==
  [][\A p \in Procs :
       (/\ Returns(p, "signUp") \/ Returns(p, "signIn")
        /\ proc'[p].result.kind = "return") =>
         LET value == proc'[p].result.value IN
         /\ value.session.userId = value.user.id
         /\ value.session.expiresAt = now + sessionExpiresIn
         /\ value.session.id \in DOMAIN sessions'
         /\ sessions'[value.session.id] = value.session
         /\ TokenOf(value) = signSessionId(value.session.id, Secret)]_vars

\* no stored session has the id x, nor the id that x is the signed token of
NamesNoSession(x) ==
  /\ x \notin DOMAIN sessions
  /\ verifySessionId(x, Secret) \notin DOMAIN sessions

\* C18: signOut returns without an error and changes no user; when its
\* argument names no stored session it changes no session either; and a
\* second signOut with the same argument would find nothing left to delete.
C18_SignOutIdempotent ==
  [][\A p \in Procs :
       Returns(p, "signOut") =>
         /\ proc'[p].result = Returned(Void)
         /\ users' = users
         /\ emailIndex' = emailIndex
         /\ NamesNoSession(proc'[p].id) => sessions' = sessions
         /\ MapDelete(sessions', proc'[p].id) = sessions']_vars

\* C18: signOut of a session id that was never handed out has returned
\* while sessions are stored
C18_Witness ==
  \E p \in Procs :
    /\ Done(p, "signOut")
    /\ proc[p].id \in SessionIds \ usedSessionIds
    /\ proc[p].result = Returned(Void)
    /\ sessions # <<>>

\* C19: when validateSession has found a stored session that is not expired
\* and whose user is not stored, it goes on to delete that session, and when
\* it returns the result is null and the session is gone from storage.
C19_OrphanedSessionIsDeleted ==
  [][\A p \in Procs :
       /\ (/\ proc[p].pc = "checkSession"
           /\ proc'[p].pc # "checkSession"
           /\ now <= proc[p].session.expiresAt
           /\ proc[p].session.userId \notin DOMAIN users) =>
            /\ proc'[p].pc = "deleteOrphan"
            /\ proc'[p].result = NoResult
       /\ (proc[p].pc = "deleteOrphan" /\ proc'[p].pc # "deleteOrphan") =>
            /\ proc'[p].pc = "done"
            /\ proc'[p].result = Returned(Null)
            /\ proc[p].session.id \notin DOMAIN sessions']_vars

\* C19: validateSession has returned null after it found the session, did
\* not find the user, and deleted the session
C19_Witness ==
  \E p \in Procs :
    /\ Done(p, "validateSession")
    /\ proc[p].calls = <<"getSession", "getUserById", "deleteSession">>
    /\ proc[p].result = Returned(Null)
    /\ proc[p].session.id \notin DOMAIN sessions
    /\ proc[p].session.userId \notin DOMAIN users

\* C20: once validateSession answers null for a string that names a session
\* a signUp or signIn made (the token it returned, the signed token of the
\* session, its raw id), it answers null for that string in every later
\* state, whatever is called in between; and a validateSession that returns
\* while the string is in that condition returns the same null, whether the
\* session expired, was signed out or was removed by signOutAll.
C20_InvalidIsTerminal ==
  [][/\ \A m \in minted : \A x \in NamesOf(m) :
          validateSession(x) = Null => validateSession(x)' = Null
     /\ \A p \in Procs : \A m \in minted :
          (/\ Returns(p, "validateSession")
           /\ proc'[p].id \in NamesOf(m)
           /\ validateSession(proc'[p].id) = Null) =>
            proc'[p].result = Returned(Null)]_vars

\* C20: validateSession of the raw id of a session has returned null after
\* it found the session expired and deleted it, while another session has
\* been made since
C20_Witness ==
  \E p \in Procs : \E m \in minted :
    /\ Done(p, "validateSession")
    /\ proc[p].id = m.sessionId
    /\ proc[p].calls = <<"getSession", "deleteSession">>
    /\ proc[p].result = Returned(Null)
    /\ \E n \in minted : n.sessionId \in DOMAIN sessions

(***************************************************************************)
(* Concurrent callers                                                      *)
(***************************************************************************)
\* the stored users whose email is the given canonical email
UsersWithEmail(email) == {id \in DOMAIN users : users[id].email = email}

\* C21: a signUp that passed its getUserByEmail check creates its user in
\* its next step without looking again: the step stores a new user under
\* the caller's canonical email and goes on to createSession, also when a
\* concurrent signUp has stored a user with that email in between; so two
\* concurrent signUps for one canonical email can both return success and
\* leave two user records with that email.
C21_SignUpRacesOnExistenceCheck ==
  [][\A p \in DOMAIN proc :
       (proc[p].pc = "createUser" /\ proc'[p] # proc[p]) =>
         /\ proc'[p].pc = "createSession"
         /\ proc'[p].user.id \in DOMAIN users' \ DOMAIN users
         /\ users'[proc'[p].user.id].email = normalizeEmail(proc[p].email)
         /\ \A id \in DOMAIN users : users'[id] = users[id]]_vars

\* C21: two concurrent signUps for one canonical email have both passed the
\* check, both created a user and both returned success, and two user
\* records with that email are stored
C21_Witness ==
  \E p, q \in DOMAIN proc :
    /\ p # q
    /\ Done(p, "signUp") /\ Done(q, "signUp")
    /\ proc[p].result.kind = "return" /\ proc[q].result.kind = "return"
    /\ proc[p].calls = <<"getUserByEmail", "createUser", "createSession">>
    /\ proc[q].calls = <<"getUserByEmail", "createUser", "createSession">>
    /\ normalizeEmail(proc[p].email) = normalizeEmail(proc[q].email)
    /\ proc[p].user.id # proc[q].user.id
    /\ {proc[p].user.id, proc[q].user.id}
         \subseteq UsersWithEmail(normalizeEmail(proc[p].email))

\* C22: signOutAll(u) removes every session of u that is stored when it
\* runs and touches no call in flight; a signIn for u in flight at that
\* moment stores its session in its next step all the same.  So signOutAll(u)
\* racing a signIn for u can return while the session the signIn makes is
\* stored and validates, and every session of u stored before signOutAll
\* began is gone.
C22_SignOutAllRacesSignIn ==
  [][/\ \A p \in DOMAIN proc :
          Returns(p, "signOutAll") =>
            /\ \A sid \in UserSessions(proc'[p].id) : sid \notin DOMAIN sessions'
            /\ \A q \in DOMAIN proc \ {p} : proc'[q] = proc[q]
     /\ \A q \in DOMAIN proc :
          (proc[q].pc = "createSession" /\ proc[q].op = "signIn"
             /\ proc'[q] # proc[q]) =>
            /\ Returns(q, "signIn")
            /\ proc'[q].session.id \in DOMAIN sessions' \ DOMAIN sessions
            /\ sessions'[proc'[q].session.id].userId = proc[q].user.id]_vars

\* C22: signOutAll(u) has returned after a signIn for u had looked the user
\* up: a session of u the signIn saw stored is gone, and the session the
\* signIn made since is stored and validates
C22_Witness ==
  \E p, q \in DOMAIN proc :
    /\ Done(p, "signOutAll")
    /\ Done(q, "signIn")
    /\ proc[q].result.kind = "return"
    /\ proc[q].user.id = proc[p].id
    /\ proc[q].seen # {}
    /\ proc[q].seen \cap DOMAIN sessions = {}
    /\ proc[q].session.id \in DOMAIN sessions
    /\ sessions[proc[q].session.id].userId = proc[p].id
    /\ validateSession(proc[q].session.id) # Null

\* p starts a signIn in this step
BeginsSignIn(p) ==
  proc[p].pc = "idle" /\ proc'[p].pc # "idle" /\ proc'[p].op = "signIn"

\* C23: a signIn for a stored user with the right password goes on to
\* createSession whatever the other callers are doing; its createSession
\* step returns success with a session under an id that no stored session
\* and no other caller has, and leaves every stored session as it was.  So
\* two concurrent signIns for one user both succeed, each with its own
\* stored session, in every interleaving.
C23_ConcurrentSignInsIndependent ==
  [][/\ \A p \in DOMAIN proc :
          BeginsSignIn(p) =>
            LET user == getUserByEmail(normalizeEmail(proc'[p].email)) IN
            (user # Null /\ verifyPassword(proc'[p].password,
                                           user.hashedPassword)) =>
              proc'[p].pc = "createSession" /\ proc'[p].result = NoResult
     /\ \A p \in DOMAIN proc :
          (proc[p].pc = "createSession" /\ proc[p].op = "signIn"
             /\ proc'[p] # proc[p]) =>
            /\ Returns(p, "signIn")
            /\ proc'[p].result.kind = "return"
            /\ proc'[p].result.value.session.id = proc'[p].session.id
            /\ proc'[p].session.id \in DOMAIN sessions' \ DOMAIN sessions
            /\ sessions'[proc'[p].session.id] = proc'[p].session
            /\ \A q \in DOMAIN proc \ {p} :
                 proc[q].session # Null =>
                   proc[q].session.id # proc'[p].session.id
            /\ \A sid \in DOMAIN sessions :
                 sid \in DOMAIN sessions' /\ sessions'[sid] = sessions[sid]]_vars

\* C23: two signIns for one user that ran at the same time (neither saw the
\* other's session stored when it looked the user up) have both returned
\* success, and their two sessions, under different ids, are both stored
C23_Witness ==
  \E p, q \in DOMAIN proc :
    /\ p # q
    /\ Done(p, "signIn") /\ Done(q, "signIn")
    /\ proc[p].result.kind = "return" /\ proc[q].result.kind = "return"
    /\ proc[p].user.id = proc[q].user.id
    /\ proc[p].session.id # proc[q].session.id
    /\ proc[p].session.id \notin proc[q].seen
    /\ proc[q].session.id \notin proc[p].seen
    /\ sessions[proc[p].session.id] = proc[p].session
    /\ sessions[proc[q].session.id] = proc[q].session

(***************************************************************************)
(* Storage faults                                                          *)
(***************************************************************************)
\* C24: when a storage call of an operation fails, the operation is over in
\* that step: it throws the fault the storage raised, as it is, after that
\* one call and with storage as it was; and from then on the call only hands
\* its result to the caller: it makes no further storage call, repeats none
\* and changes nothing in storage.
C24_StorageFaultPropagates ==
  [][\A p \in DOMAIN proc :
       /\ (proc[p].fault = NoError /\ proc'[p].fault # NoError) =>
            /\ proc'[p].pc = "done"
            /\ proc'[p].op \in DOMAIN FirstCall
            /\ proc'[p].result.kind = "throw"
            /\ proc'[p].result.error = proc'[p].fault
            /\ Len(proc'[p].calls) = Len(proc[p].calls) + 1
            /\ UNCHANGED <<users, emailIndex, sessions>>
       /\ (proc[p].fault # NoError /\ proc'[p] # proc[p]) =>
            /\ proc'[p] = IdleProc
            /\ UNCHANGED <<users, emailIndex, sessions>>]_vars

\* C24: the createSession call of a signUp failed after getUserByEmail and
\* createUser had gone through: signUp threw the storage's fault and made
\* no further call
C24_Witness ==
  \E p \in DOMAIN proc :
    /\ Done(p, "signUp")
    /\ proc[p].fault \in StorageFaults
    /\ proc[p].result = Thrown(proc[p].fault)
    /\ proc[p].calls = <<"getUserByEmail", "createUser", "createSession">>
    /\ proc[p].user.id \in DOMAIN users
    /\ UserSessions(proc[p].user.id) = {}

(***************************************************************************)
(* Construction                                                            *)
(***************************************************************************)
\* the constructor has run
Constructed == codec.pc \in {"constructed", "issued"}

\* the session TTL the manager was configured with
ConfiguredTtl == expiresInOf(codec.config)

\* the secret, the storage instance and an enabled method are all there
RequiredPresent ==
  /\ codec.config.secret.type = "string" /\ codec.config.secret.s # <<>>
  /\ codec.config.db
  /\ codec.config.method.defined /\ codec.config.method.email

\* C25: a session TTL given as a string that is not <integer><unit> with
\* unit in {ms, s, m, h, d} makes the constructor fail with
\* ConfigurationError, so no manager exists that could issue a session.
C25_BadTtlLiteralRejected ==
  (/\ codec.pc # "config"
   /\ RequiredPresent
   /\ ConfiguredTtl.type = "string"
   /\ ~durationMatches(ConfiguredTtl.s)) =>
    /\ codec.pc = "failed"
    /\ codec.error.name = "ConfigurationError"

\* the milliseconds a duration literal stands for: its integer times the
\* factor of its unit
LiteralMilliseconds(s) ==
  parseInt(SubSeq(s, 1, LeadingDigits(s)))
    * unitMilliseconds(Drop(s, LeadingDigits(s) + 1))

\* C26: the session TTL of a constructed manager is the configured number
\* of milliseconds itself when a number is configured (0 included), the
\* integer of the literal times 1, 1000, 60000, 3600000 or 86400000 when a
\* literal with ms, s, m, h or d is configured, and 7 days (604800000) when
\* no TTL is configured.
C26_EffectiveTtl ==
  Constructed =>
    /\ ConfiguredTtl.type = "number" =>
         codec.sessionExpiresIn = ConfiguredTtl.n
    /\ (ConfiguredTtl.type = "string" /\ durationMatches(ConfiguredTtl.s)) =>
         codec.sessionExpiresIn = LiteralMilliseconds(ConfiguredTtl.s)
    /\ ConfiguredTtl.type = "undefined" =>
         codec.sessionExpiresIn = 604800000

\* the configured TTL is absent, a number, or a duration literal
ValidTtl ==
  ConfiguredTtl.type = "string" => durationMatches(ConfiguredTtl.s)

\* C27: when the secret is missing or empty, the storage instance is
\* missing, or no method is enabled (method absent or method.email not
\* true), the constructor fails with ConfigurationError and there is no
\* manager to issue a session; with all three present and a valid TTL it
\* succeeds.
C27_ConstructionRequirements ==
  /\ (codec.pc # "config" /\ ~RequiredPresent) =>
       /\ codec.pc = "failed"
       /\ codec.error.name = "ConfigurationError"
       /\ codec.error.code = "CONFIGURATION_ERROR"
  /\ (codec.pc # "config" /\ RequiredPresent /\ ValidTtl) =>
       /\ Constructed
       /\ codec.error = NoError
  /\ codec.pc = "failed" => codec.error.name = "ConfigurationError"

\* C27: construction has failed for a configuration that has a secret, a
\* storage instance and a valid TTL, and a method with email not enabled
C27_Witness ==
  /\ codec.pc = "failed"
  /\ Truthy(codec.config.secret)
  /\ codec.config.db
  /\ codec.config.method.defined /\ ~codec.config.method.email
  /\ ValidTtl
  /\ codec.error = ConfigurationError("At least one auth method must be enabled")

\* C28: construction with a non-empty secret shorter than 32 characters
\* succeeds, whenever it succeeds with a long one, and flags a warning; with
\* a secret of 32 characters or more it flags none.
C28_ShortSecretWarns ==
  (/\ codec.pc # "config"
   /\ RequiredPresent
   /\ ValidTtl) =>
    /\ Constructed
    /\ Len(codec.config.secret.s) < MinSecretLength => codec.warnings # <<>>
    /\ Len(codec.config.secret.s) >= MinSecretLength => codec.warnings = <<>>

(***************************************************************************)
(* Canonical emails and lazy expiry                                        *)
(***************************************************************************)
UpperCaseLetters == {"A", "B", "C", "D", "E", "F"}

\* the string has no space at either end and no upper-case letter
IsCanonical(email) ==
  /\ email # <<>> => (Head(email) # " " /\ email[Len(email)] # " ")
  /\ \A i \in 1..Len(email) : email[i] \notin UpperCaseLetters

\* C29: every stored user has an email that is trimmed and lower-cased, and
\* so is every email that signUp and signIn pass to getUserByEmail and that
\* signUp passes to createUser.
C29_EmailsAreCanonical ==
  /\ \A id \in DOMAIN users : IsCanonical(users[id].email)
  /\ \A p \in DOMAIN proc :
       /\ proc[p].op \in {"signUp", "signIn"} => IsCanonical(proc[p].lookup)
       /\ (proc[p].op = "signUp" /\ proc[p].user # Null) =>
            /\ IsCanonical(proc[p].user.email)
            /\ proc[p].user.email = toLowerCase(trim(proc[p].email))

\* C29: a signUp with an email that is not in canonical form has returned;
\* the user it stored has the email trimmed and lower-cased
C29_Witness ==
  \E p \in DOMAIN proc :
    /\ Done(p, "signUp")
    /\ proc[p].result.kind = "return"
    /\ ~IsCanonical(proc[p].email)
    /\ proc[p].user.id \in DOMAIN users
    /\ users[proc[p].user.id].email = proc[p].lookup
    /\ users[proc[p].user.id].email # proc[p].email

\* the step is the return of a validateSession or a signOut of a string
\* that names the session, or of a signOutAll of its user
RemovedByCall(sid) ==
  \E p \in DOMAIN proc :
    \/ /\ Returns(p, "validateSession") \/ Returns(p, "signOut")
       /\ proc'[p].id \in {sid, SignedToken(sid)}
    \/ /\ Returns(p, "signOutAll")
       /\ proc'[p].id = sessions[sid].userId

\* C30: a stored session whose expiresAt has passed stays in storage as it
\* is through every step, except a validateSession or signOut that names
\* it and a signOutAll of its user: nothing else removes or changes it.
C30_ExpiryIsLazy ==
  [][\A sid \in DOMAIN sessions :
       (now > sessions[sid].expiresAt /\ ~RemovedByCall(sid)) =>
         /\ sid \in DOMAIN sessions'
         /\ sessions'[sid] = sessions[sid]]_vars

\* C30: a session has expired and is still stored after a signIn made since
\* has returned
C30_Witness ==
  \E sid \in DOMAIN sessions : \E p \in DOMAIN proc :
    /\ now > sessions[sid].expiresAt
    /\ Done(p, "signIn")
    /\ proc[p].result.kind = "return"
    /\ proc[p].session.id # sid
    /\ proc[p].session.createdAt > sessions[sid].expiresAt

(***************************************************************************)
(* Users, frames and the order of calls                                    *)
(***************************************************************************)
\* C31: no step of an operation deletes or changes a stored user: the users
\* only grow; so after signOut or signOutAll(u) the user u is still there,
\* a signIn for u with the right password goes on to createSession, and the
\* session it returns is stored and validates.
C31_UsersOnlyGrow ==
  [][/\ \A id \in DOMAIN users :
          id \in DOMAIN users' /\ users'[id] = users[id]
     /\ \A key \in DOMAIN emailIndex :
          key \in DOMAIN emailIndex' /\ emailIndex'[key] = emailIndex[key]
     /\ \A p \in DOMAIN proc :
          BeginsSignIn(p) =>
            \A m \in minted :
              (m.op = "signUp" /\ m.email = normalizeEmail(proc'[p].email)
                 /\ m.password = proc'[p].password) =>
                proc'[p].pc = "createSession" /\ proc'[p].user.id = m.userId
     /\ \A p \in DOMAIN proc :
          (Returns(p, "signIn") /\ proc'[p].result.kind = "return") =>
            \E sid \in SessionIds :
              sid = proc'[p].session.id /\ validateSession(sid)' # Null]_vars

\* C31: the session of a signUp has been signed out (the clock has not
\* moved, so it did not expire); a signIn of the same user since has
\* returned a session that is stored and validates
C31_Witness ==
  \E p \in DOMAIN proc : \E m \in minted :
    /\ now = 0
    /\ m.op = "signUp"
    /\ m.sessionId \notin DOMAIN sessions
    /\ Done(p, "signIn")
    /\ proc[p].result.kind = "return"
    /\ proc[p].user.id = m.userId
    /\ m.userId \in DOMAIN users
    /\ validateSession(proc[p].session.id) # Null

\* the most storage calls an operation makes
MaxCalls ==
  [signUp |-> 3, signIn |-> 2, validateSession |-> 3, signOut |-> 1,
   signOutAll |-> 1]

\* a call is in flight: started and not yet returned
InFlight(p) == proc[p].pc \notin {"idle", "done"}

C33_MongoAdapterSelected ==
  codec.pc # "config" =>
    /\ (codec.database.type = "mongodb"
          /\ codec.database.client = "MongoDatabase") =>
         \/ codec.pc = "database" /\ codec.adapter = "mongodb"
         \/ codec.pc = "manager" /\ codec.adapter = "mongodb"
         \/ codec.pc = "failed" /\ codec.error.message = "secret is required"
    /\ codec.adapter \in {"none", codec.database.type}
    /\ (codec.database.type \in {"postgresql", "mongodb"}
          /\ codec.database.client = "undefined") =>
         /\ codec.pc = "failed"
         /\ codec.error.name = "ConfigurationError"

\* the call of p fails in this step with the error of that name
FailsWith(p, operation, name) ==
  /\ Returns(p, operation)
  /\ proc'[p].result.kind = "throw"
  /\ proc'[p].result.error.name = name

\* C34: the step in which a signUp fails with UserAlreadyExistsError, or a
\* signIn with InvalidCredentialsError, leaves the users, the email index
\* and the sessions as they were, and the failed call made no storage call
\* but its look-up; so whatever validated before it validates after it,
\* with the same result.
C34_FailedCallsLeaveStorage ==
  [][\A p \in DOMAIN proc :
       (\/ FailsWith(p, "signUp", "UserAlreadyExistsError")
        \/ FailsWith(p, "signIn", "InvalidCredentialsError")) =>
         /\ users' = users
         /\ emailIndex' = emailIndex
         /\ sessions' = sessions
         /\ proc'[p].calls = <<"getUserByEmail">>
         /\ \A sid \in SessionIds :
              validateSession(sid)' = validateSession(sid)]_vars

\* C34: a signIn has failed with InvalidCredentialsError for a stored user
\* whose session is stored and still validates
C34_Witness ==
  \E p \in DOMAIN proc : \E sid \in DOMAIN sessions :
    /\ Done(p, "signIn")
    /\ proc[p].result.kind = "throw"
    /\ proc[p].result.error.name = "InvalidCredentialsError"
    /\ getUserByEmail(proc[p].lookup) # Null
    /\ sessions[sid].userId = getUserByEmail(proc[p].lookup).id
    /\ validateSession(sid) # Null

(***************************************************************************)
(* signUp and its two writes                                               *)
(***************************************************************************)
\* the createSession call of the signUp of p fails in this step
SignUpFailsAtCreateSession(p) ==
  /\ proc[p].op = "signUp"
  /\ proc[p].pc = "createSession"
  /\ proc'[p].pc = "done"
  /\ proc'[p].result.kind = "throw"

\* a stored user that no signUp returned and no signUp in flight holds: the
\* user a signUp left behind when its createSession failed
LeftBehind(id) ==
  /\ id \in DOMAIN users
  /\ \A m \in minted : ~(m.op = "signUp" /\ m.userId = id)
  /\ \A q \in DOMAIN proc :
       ~(proc[q].op = "signUp" /\ proc[q].pc \in {"createUser", "createSession"}
           /\ proc[q].user # Null /\ proc[q].user.id = id)

\* p starts a signUp in this step and its look-up does not fail
BeginsSignUp(p) ==
  /\ proc[p].pc = "idle"
  /\ proc'[p].pc # "idle"
  /\ proc'[p].op = "signUp"
  /\ proc'[p].fault = NoError

\* C35: when the createSession call of a signUp fails, signUp throws the
\* storage's fault and the step undoes nothing: the user createUser stored
\* stays stored under its email and no session is stored.  For a user
\* left behind like this, a signUp with the same email throws
\* UserAlreadyExistsError, a signIn with the email and the password goes on
\* to createSession, and every stored session of the user was returned by a
\* signIn.
C35_SignUpNotAtomic ==
  /\ [][\A p \in DOMAIN proc :
          /\ SignUpFailsAtCreateSession(p) =>
               /\ proc'[p].result = Thrown(proc'[p].fault)
               /\ proc'[p].fault \in StorageFaults
               /\ users' = users
               /\ emailIndex' = emailIndex
               /\ sessions' = sessions
               /\ proc[p].user.id \in DOMAIN users =>
                    /\ LeftBehind(proc[p].user.id)'
                    /\ UserSessions(proc[p].user.id)' = {}
          /\ \A id \in DOMAIN users :
               (/\ LeftBehind(id)
                /\ BeginsSignUp(p)
                /\ normalizeEmail(proc'[p].email) = users[id].email) =>
                 proc'[p].result = Thrown(UserAlreadyExistsError)
          /\ \A id \in DOMAIN users :
               (/\ LeftBehind(id)
                /\ BeginsSignIn(p)
                /\ proc'[p].fault = NoError
                /\ normalizeEmail(proc'[p].email) = users[id].email
                /\ verifyPassword(proc'[p].password,
                                  users[id].hashedPassword)) =>
                 proc'[p].pc = "createSession" /\ proc'[p].user.id = id]_vars
  /\ [](\A id \in DOMAIN users :
          LeftBehind(id) =>
            \A sid \in UserSessions(id) :
              \E m \in minted : m.sessionId = sid /\ m.op = "signIn")

\* C35: a signUp failed at createSession and left its user behind; a signIn
\* has since returned a session of that user that is stored and validates
C35_Witness ==
  \E p \in DOMAIN proc : \E id \in DOMAIN users :
    /\ LeftBehind(id)
    /\ Done(p, "signIn")
    /\ normalizeEmail(proc[p].email) = users[id].email
    /\ proc[p].result.kind = "return"
    /\ proc[p].session.id \in UserSessions(id)
    /\ validateSession(proc[p].session.id) # Null

(***************************************************************************)
(* Invariants of the store                                                 *)
(***************************************************************************)
\* C36: when no two signUp calls interleave, no two stored users share a
\* canonical email, whatever the other operations do in between; and the
\* email index leads from each stored email to its one user.
C36_CanonicalEmailsUnique ==
  /\ \A a, b \in DOMAIN users :
       toLowerCase(trim(users[a].email)) = toLowerCase(trim(users[b].email))
         => a = b
  /\ \A a \in DOMAIN users :
       /\ toLowerCase(users[a].email) \in DOMAIN emailIndex
       /\ emailIndex[toLowerCase(users[a].email)] = a

\* C36: two users are stored under different emails, a signUp in another
\* spelling of a stored email has been refused, and a signIn is in flight
C36_Witness ==
  \E p, q \in DOMAIN proc :
    /\ Cardinality(DOMAIN users) = 2
    /\ Done(p, "signUp")
    /\ proc[p].result = Thrown(UserAlreadyExistsError)
    /\ proc[p].email # normalizeEmail(proc[p].email)
    /\ proc[q].op = "signIn" /\ proc[q].pc = "createSession"

\* C37: with the core's operations alone, under every interleaving, every
\* stored session has the id of a stored user as its userId, and so has
\* every session a call holds; no validateSession is in the branch that
\* deletes the session of a missing user, and none has returned from it.
C37_SessionsHaveUsers ==
  /\ \A sid \in DOMAIN sessions :
       sessions[sid].id = sid /\ sessions[sid].userId \in DOMAIN users
  /\ \A p \in DOMAIN proc :
       /\ proc[p].session # Null => proc[p].session.userId \in DOMAIN users
       /\ proc[p].pc # "deleteOrphan"
       /\ proc[p].op = "validateSession" =>
            proc[p].calls # <<"getSession", "getUserById", "deleteSession">>

\* C37: sessions of two users are stored, and a validateSession has looked
\* the user of its session up with getUserById and found it, while the
\* other caller's signOutAll for that user has returned
C37_Witness ==
  \E p, q \in DOMAIN proc :
    /\ Cardinality({sessions[sid].userId : sid \in DOMAIN sessions}) = 2
    /\ Done(p, "validateSession")
    /\ proc[p].calls = <<"getSession", "getUserById">>
    /\ proc[p].result.kind = "return"
    /\ proc[p].result.value # Null
    /\ Done(q, "signOutAll")
    /\ proc[q].id = proc[p].session.userId

\* C38: the step in which validateSession returns a user and a session
\* writes nothing: users, email index and sessions are as before, and the
\* session returned is the stored one.  In every step a session that stays
\* stored stays as it is, and every stored session has the userId it was
\* made for and expires sessionExpiresIn after it was made.
C38_ValidateIsReadOnly ==
  /\ [][/\ \A p \in DOMAIN proc :
             (/\ Returns(p, "validateSession")
              /\ proc'[p].result.kind = "return"
              /\ proc'[p].result.value # Null) =>
               /\ users' = users
               /\ emailIndex' = emailIndex
               /\ sessions' = sessions
               /\ proc'[p].id \in DOMAIN sessions
               /\ proc'[p].result.value.session = sessions[proc'[p].id]
        /\ \A sid \in DOMAIN sessions \cap DOMAIN sessions' :
             sessions'[sid] = sessions[sid]]_vars
  /\ [](\A sid \in DOMAIN sessions :
          /\ sessions[sid].expiresAt = sessions[sid].createdAt + sessionExpiresIn
          /\ \E m \in minted :
               m.sessionId = sid /\ m.userId = sessions[sid].userId)

\* C38: validateSession has returned the user and the session at a time
\* after the session was made, and the stored session still expires when it
\* was set to at creation
C38_Witness ==
  \E p \in DOMAIN proc :
    /\ Done(p, "validateSession")
    /\ proc[p].result.kind = "return"
    /\ proc[p].result.value # Null
    /\ proc[p].id \in DOMAIN sessions
    /\ now > sessions[proc[p].id].createdAt
    /\ sessions[proc[p].id].expiresAt
         = sessions[proc[p].id].createdAt + sessionExpiresIn

(***************************************************************************)
(* validateSession against signOut and signOutAll                          *)
(***************************************************************************)
\* p starts a validateSession in this step
BeginsValidateSession(p) ==
  proc[p].pc = "idle" /\ proc'[p].pc # "idle" /\ proc'[p].op = "validateSession"

\* C39: under every interleaving, when signOut returns its session is not
\* stored, and when signOutAll returns no session of the user that was
\* stored before it is; a session id that was removed is never stored again;
\* and a validateSession that starts for an id that is not stored returns
\* null at once.  So a validateSession that starts after the signOut or
\* signOutAll returned yields invalid, and a validateSession that returns a
\* user for a session no longer stored is one that had read the session
\* before and was at its check.
C39_ValidateAfterSignOut ==
  [][/\ \A p \in DOMAIN proc :
          /\ Returns(p, "signOut") => proc'[p].id \notin DOMAIN sessions'
          /\ Returns(p, "signOutAll") =>
               \A sid \in UserSessions(proc'[p].id) : sid \notin DOMAIN sessions'
          /\ (BeginsValidateSession(p) /\ proc'[p].id \notin DOMAIN sessions) =>
               proc'[p].pc = "done" /\ proc'[p].result = Returned(Null)
          /\ (/\ Returns(p, "validateSession")
              /\ proc'[p].result.value # Null) =>
               /\ proc[p].pc = "checkSession"
               /\ proc[p].session # Null
               /\ proc[p].calls = <<"getSession">>
     /\ \A sid \in usedSessionIds \ DOMAIN sessions :
          sid \notin DOMAIN sessions']_vars

\* C39: a validateSession that read the session before another caller's
\* signOut of it returned has returned the user and the session although
\* the session is no longer stored, and validateSession of that id now
\* gives null
C39_Witness ==
  \E p, q \in DOMAIN proc :
    /\ Done(q, "signOut")
    /\ Done(p, "validateSession")
    /\ proc[p].id = proc[q].id
    /\ proc[p].result.kind = "return"
    /\ proc[p].result.value # Null
    /\ proc[p].id \notin DOMAIN sessions
    /\ now <= proc[p].session.expiresAt
    /\ validateSession(proc[p].id) = Null

(***************************************************************************)
(* The expiry comparison                                                   *)
(***************************************************************************)
\* validateSession makes its expiry check in this step
ChecksExpiry(p) == proc[p].pc = "checkSession" /\ proc'[p].pc # "checkSession"

\* C40: the expiry check is strict.  A validateSession that makes its check
\* at a time up to and including the session's expiresAt goes on to
\* getUserById, returns the stored user and the session, and deletes
\* nothing; one that makes it at a later time calls deleteSession, returns
\* null and leaves the session removed.
C40_ExpiryIsStrict ==
  [][\A p \in DOMAIN proc :
       ChecksExpiry(p) =>
         /\ now <= proc[p].session.expiresAt =>
              /\ sessions' = sessions
              /\ proc'[p].calls = <<"getSession", "getUserById">>
              /\ proc'[p].result =
                   Returned([user |-> toSafeUser(users[proc[p].session.userId]),
                             session |-> proc[p].session])
         /\ now > proc[p].session.expiresAt =>
              /\ proc'[p].calls = <<"getSession", "deleteSession">>
              /\ proc'[p].result = Returned(Null)
              /\ proc[p].id \notin DOMAIN sessions']_vars

\* C40: validateSession has returned the user and the session at the very
\* time the session expires, and the session is still stored
C40_Witness ==
  \E p \in DOMAIN proc :
    /\ Done(p, "validateSession")
    /\ proc[p].result.kind = "return"
    /\ proc[p].result.value # Null
    /\ now = proc[p].session.expiresAt
    /\ proc[p].id \in DOMAIN sessions
    /\ sessions[proc[p].id] = proc[p].session

====
